---- MODULE Spec2Model ----
(***************************************************************************)
(* Criteria x company RAG evaluation pipeline of the Top-200 application:  *)
(* the media scan table (pages/2_Media_Scan_Management.py), the criteria   *)
(* table (pages/3_Criteria_Management.py), the analysis run and its        *)
(* prompt (pages/4_AI_Analysis.py) and the review queries                  *)
(* (pages/5_Review_Analysis.py).                                           *)
(***************************************************************************)
EXTENDS Integers, Sequences, FiniteSets, Bags, TLC

(***************************************************************************)
(* Bounds of the model.                                                    *)
(***************************************************************************)
\* rows of input_criteria
MaxCriteria == 2
\* rag calls (cells) over all runs of one behaviour
MaxCalls == 2
\* clock seconds that can elapse after the first run starts
MaxTime == 1
\* rows of cortex_output a review starts from
MaxRows == 2

(***************************************************************************)
(* Text.  A string is a sequence of one-character strings, so that TRIM    *)
(* and UPPER are computed and not assumed.                                 *)
(***************************************************************************)
UpperChar(ch) ==
    CASE ch = "y" -> "Y"
      [] ch = "e" -> "E"
      [] ch = "s" -> "S"
      [] ch = "n" -> "N"
      [] ch = "o" -> "O"
      [] ch = "p" -> "P"
      [] ch = "d" -> "D"
      [] ch = "f" -> "F"
      [] OTHER -> ch

\* SQL UPPER(s)
Upper(s) == [i \in 1..Len(s) |-> UpperChar(s[i])]

\* SQL LTRIM / RTRIM / TRIM with the default character set (the space)
RECURSIVE LTrim(_)
LTrim(s) == IF s # <<>> /\ Head(s) = " " THEN LTrim(Tail(s)) ELSE s

RECURSIVE RTrim(_)
RTrim(s) ==
    IF s # <<>> /\ s[Len(s)] = " " THEN RTrim(SubSeq(s, 1, Len(s) - 1)) ELSE s

Trim(s) == RTrim(LTrim(s))

YES == <<"Y", "E", "S">>

\* SQL NULL / Python None in a text column
NULL == <<"<null>">>

\* WHEN UPPER(TRIM(co.result)) = 'YES': a NULL operand makes the comparison
\* NULL, which CASE treats as not true
IsYes(result) == result # NULL /\ Upper(Trim(result)) = YES

(***************************************************************************)
(* The values a completion can put in "result".                            *)
(***************************************************************************)
RagResults == { YES, <<"N", "o">> }

(***************************************************************************)
(* Inputs of the model.                                                    *)
(***************************************************************************)
\* DISTINCT COMPANY_NAME of cortex_docs_chunks_table, ORDER BY COMPANY_NAME
Companies == <<"Acme", "Beta">>

IdRank(id) == CASE id = "A.1" -> 1 [] id = "B.1" -> 2 [] OTHER -> 3
VersionRank(v) == CASE v = "1.0" -> 1 [] v = "2.0" -> 2 [] OTHER -> 3

\* Numbers are counted in tenths (the weight field's step is 0.1).  A SQL
\* number is a value or NULL.
Num(v) == [null |-> FALSE, v |-> v]
NullNum == [null |-> TRUE, v |-> 0]

\* the weight of a criterion that has none: 1.0
DefaultWeight == 10

\* The rows a user enters through the criteria form or a CSV file.
Criterion(id, version, weight, active) ==
    [id |-> id, version |-> version,
     question |-> <<"Q", id, version>>,
     criteria_prompt |-> <<"P", id, version>>,
     weight |-> Num(weight), active |-> active]

CriteriaInputs ==
    { Criterion("A.1", "1.0", 20, TRUE),
      Criterion("A.1", "2.0", 10, TRUE),
      Criterion("B.1", "1.0", 10, TRUE),
      Criterion("B.1", "2.0", 10, FALSE) }

(***************************************************************************)
(* State.                                                                  *)
(***************************************************************************)
VARIABLES
    input_criteria,     \* table input_criteria: a bag of rows (no key is enforced)
    cortex_output,      \* table cortex_output: rows in insertion order
    now,                \* the wall clock, in seconds
    uuids,              \* number of uuid4() values drawn so far
    pc,                 \* analysis page: "idle", "loop" (in run_analysis), "display"
    selected_criteria,  \* run_analysis argument
    companies,          \* run_analysis argument
    run_id,             \* run_analysis local
    total_analyses,     \* run_analysis local
    analysis_count,     \* run_analysis local
    ci, ki,             \* positions of the two for loops
    results,            \* run_analysis local
    rag_output,         \* run_analysis local
    locals,             \* run_analysis locals question, justification, evidence
    rag_calls,          \* the calls of rag made by the current run
    calls,              \* rag calls over all runs
    errors,             \* st.error messages on the analysis page
    warnings,           \* st.warning messages on the analysis page
    summary,            \* the "Analysis completed" line and the results display
    review,             \* what the review page shows
    runs,               \* the runs started so far: run_id, criteria, companies
    progress,           \* the values the run's progress bar has shown
    media_scan,         \* table media_scan: a bag of rows (no key is enforced)
    rag_trace,          \* the search and the prompt of the last call of rag
    clock,              \* the wall clock of the upload page, in ticks
    stage,              \* the files of @stage, one per path
    batches,            \* the batch ids handed out, with the session of each
    cortex_parsed_docs, \* table cortex_parsed_docs: a bag of rows
    cortex_docs_chunks_table, \* table cortex_docs_chunks_table: a bag of rows
    process_log,        \* what each call of process_all_documents did
    media_page,         \* st.session_state of the media scan page, and its screen
    criteria_form       \* st.session_state of the criteria edit form, and its screen

vars == <<input_criteria, cortex_output, now, uuids, pc, selected_criteria,
          companies, run_id, total_analyses, analysis_count, ci, ki, results,
          rag_output, locals, rag_calls, calls, errors, warnings, summary,
          review, runs, progress, media_scan, rag_trace, clock, stage,
          batches, cortex_parsed_docs, cortex_docs_chunks_table, process_log,
          media_page, criteria_form>>

runVars == <<pc, selected_criteria, companies, run_id, total_analyses,
             analysis_count, ci, ki, results, rag_output, locals, rag_calls,
             calls, errors, warnings, summary, uuids, now, runs, progress>>

\* what the criteria, analysis and review pages leave alone
sideVars == <<media_scan, rag_trace>>

\* the stage and the tables of the document pipeline
docVars == <<clock, stage, batches, cortex_parsed_docs,
            cortex_docs_chunks_table, process_log>>

\* what the analysis and the review page, and the operations on the two
\* tables input_criteria and media_scan, leave alone
otherPages == <<docVars, media_page, criteria_form>>

Last(s) == s[Len(s)]

RECURSIVE SeqSum(_)
SeqSum(s) == IF s = <<>> THEN 0 ELSE Head(s) + SeqSum(Tail(s))

(***************************************************************************)
(* Table input_criteria (pages/3_Criteria_Management.py).                  *)
(***************************************************************************)
RECURSIVE SetSum(_, _)
SetSum(S, f) ==
    IF S = {} THEN 0
    ELSE LET x == CHOOSE y \in S : TRUE IN f[x] + SetSum(S \ {x}, f)

SeqToBag(s) ==
    [r \in { s[i] : i \in DOMAIN s } |-> Cardinality({ i \in DOMAIN s : s[i] = r })]

\* save_criteria(session, criteria_data, is_edit=False): INSERT, no key check
SaveCriteriaInsert(table, criteria_data) == table (+) SetToBag({criteria_data})

\* the rows of a criteria_id rewritten to one row
RECURSIVE Updated(_, _, _, _)
Updated(table, rows, criteria_id, new_row) ==
    IF rows = {} THEN EmptyBag
    ELSE LET r == CHOOSE x \in rows : TRUE
             r2 == IF r.id = criteria_id THEN new_row ELSE r
         IN  [x \in {r2} |-> table[r]] (+) Updated(table, rows \ {r}, criteria_id, new_row)

\* save_criteria(session, criteria_data, is_edit=True): UPDATE input_criteria
\* SET question, criteria_prompt, weight, version, active WHERE id = ?
SaveCriteriaUpdate(table, criteria_data) ==
    Updated(table, BagToSet(table), criteria_data.id, criteria_data)

\* toggle_criteria_status: UPDATE input_criteria SET active = ? WHERE id = ?
ToggleCriteriaStatus(table, criteria_id, active) ==
    LET Set(r) == IF r.id = criteria_id THEN [r EXCEPT !.active = active] ELSE r
        rows == { Set(r) : r \in BagToSet(table) }
    IN  [r2 \in rows |->
            SetSum({ r \in BagToSet(table) : Set(r) = r2 },
                   [r \in BagToSet(table) |-> table[r]])]

\* delete_criteria: DELETE FROM input_criteria WHERE id = ?
DeleteCriteria(table, criteria_id) ==
    [r \in { x \in BagToSet(table) : x.id # criteria_id } |-> table[r]]

(***************************************************************************)
(* get_active_criteria (pages/4_AI_Analysis.py).                           *)
(***************************************************************************)
DisplayName(id, version) == <<id, version>>

KeyLeq(a, b) ==
    \/ IdRank(a.id) < IdRank(b.id)
    \/ a.id = b.id /\ VersionRank(a.version) <= VersionRank(b.version)

\* WHERE ACTIVE = TRUE
ActiveFilter(r) == r.active

ActiveBag(table) ==
    [r \in { x \in BagToSet(table) : ActiveFilter(x) } |-> table[r]]

\* ORDER BY ID, VERSION: rows of equal (ID, VERSION) come in any order
OrderedRows(B) ==
    { s \in [1..BagCardinality(B) -> BagToSet(B)] :
        /\ SeqToBag(s) = B
        /\ \A i \in 1..(Len(s) - 1) : KeyLeq(s[i], s[i + 1]) }

CriteriaDict(row) ==
    [id |-> row.id,
     version |-> row.version,
     prompt |-> row.criteria_prompt,
     question |-> row.question,
     weight |-> IF ~row.weight.null THEN row.weight.v ELSE DefaultWeight,
     display_name |-> DisplayName(row.id, row.version)]

\* the lists get_active_criteria can return
GetActiveCriteria(table) ==
    { [i \in DOMAIN s |-> CriteriaDict(s[i])] : s \in OrderedRows(ActiveBag(table)) }

(***************************************************************************)
(* The completion service.  rag(query, company) either raises (retrieval   *)
(* or completion failure) or returns the text of the completion.  A text   *)
(* is described by what json.loads makes of it: not JSON, a JSON value     *)
(* that is no object, or an object with some of the expected keys.  The    *)
(* texts of different calls differ (field n).                              *)
(***************************************************************************)
RequiredKeys == {"result", "explanation", "supporting_evidence"}

NoFields == [k \in {} |-> <<>>]

FieldValue(k, n, res) ==
    CASE k = "result" -> res
      [] k = "explanation" -> <<"explanation", n>>
      [] OTHER -> <<"evidence", n>>

\* the key sets of the objects a completion returns: all the expected keys,
\* or all but one
KeySets == { RequiredKeys \ missing : missing \in { {} } \cup { {k} : k \in RequiredKeys } }

Text(n, json, obj, fields) ==
    [n |-> n, parsed |-> FALSE, json |-> json, obj |-> obj, fields |-> fields]

\* rag_output before the first assignment
NoOutput == Text(0, FALSE, FALSE, NoFields)

\* the texts of call n: not JSON, a JSON value that is no object, a complete
\* object for each result, and an object for each missing key
CompletionTexts(n, Results) ==
    { Text(n, FALSE, FALSE, NoFields), Text(n, TRUE, FALSE, NoFields) }
    \cup { Text(n, TRUE, TRUE, [k \in RequiredKeys |-> FieldValue(k, n, res)]) :
             res \in Results }
    \cup { Text(n, TRUE, TRUE, [k \in keys |-> FieldValue(k, n, YES)]) :
             keys \in KeySets \ { RequiredKeys } }

RagOutcomes(n, Results) ==
    { [raised |-> TRUE, text |-> NoOutput] }
    \cup { [raised |-> FALSE, text |-> t] : t \in CompletionTexts(n, Results) }

\* json.loads made lenient: a text that does not parse becomes a default "No"
JsonLoadsDefaultNo(text) ==
    [ok |-> TRUE,
     value |-> IF text.json THEN [text EXCEPT !.parsed = TRUE]
               ELSE [text EXCEPT !.parsed = TRUE, !.obj = TRUE,
                                 !.fields = [k \in RequiredKeys |->
                                               FieldValue(k, text.n, <<"N", "o">>)]]]

\* json.loads(text)
JsonLoads(text) ==
    [ok |-> text.json, value |-> [text EXCEPT !.parsed = TRUE]]

\* json.dumps(value)
JsonDumps(value) == <<"json", value>>

\* value[key] raises TypeError when value is no dict, KeyError without the key
HasKey(value, key) == value.obj /\ key \in DOMAIN value.fields

(***************************************************************************)
(* run_analysis (pages/4_AI_Analysis.py): one cell of the matrix.          *)
(***************************************************************************)
\* the locals of run_analysis that one cell can leave to the next
NoLocals ==
    [bound |-> {},
     question |-> <<"Q", "", "">>,
     justification |-> <<"explanation", 0>>,
     evidence |-> JsonDumps(<<"evidence", 0>>)]

Bind(loc, name, value) ==
    [loc EXCEPT ![name] = value, !.bound = @ \cup {name}]

\* a run_id made of the timestamp alone
NewRunIdTimeOnly(uuid, time) == <<"analysis", 0, time>>

\* uuid.uuid4().hex[:8] and datetime.now() to the second.  The random part
\* is a draw that never repeats.
NewRunId(uuid, time) == <<"analysis", uuid, time>>

OutputJson(criteria, company, result, rid, time) ==
    [company |-> company,
     criteria_id |-> criteria.id,
     criteria_version |-> criteria.version,
     question |-> criteria.question,
     prompt |-> criteria.prompt,
     result |-> result,
     timestamp |-> time,
     run_id |-> rid,
     analysis_type |-> "criteria_based_rag"]

\* a row built from what input_criteria holds for the criteria id when the
\* row is written
OutputRowCurrent(criteria, company, result, justification, evidence, rid, time) ==
    LET rows == { r \in BagToSet(input_criteria) : r.id = criteria.id }
        used == IF rows = {} THEN criteria
                ELSE LET r == CHOOSE x \in rows : TRUE
                     IN  [criteria EXCEPT !.version = r.version,
                                          !.prompt = r.criteria_prompt,
                                          !.question = r.question]
    IN  [criteria_id |-> used.id,
         criteria_version |-> used.version,
         criteria_prompt |-> used.prompt,
         question |-> used.question,
         run_id |-> rid,
         result |-> result,
         justification |-> justification,
         evidence |-> evidence,
         data_source |-> company,
         output |-> OutputJson(used, company, result, rid, time)]

OutputRow(criteria, company, result, justification, evidence, rid, time) ==
    [criteria_id |-> criteria.id,
     criteria_version |-> criteria.version,
     criteria_prompt |-> criteria.prompt,
     question |-> criteria.question,
     run_id |-> rid,
     result |-> result,
     justification |-> justification,
     evidence |-> evidence,
     data_source |-> company,
     output |-> OutputJson(criteria, company, result, rid, time)]

ResultEntry(criteria, company, result, status, rid, question, justification, evidence) ==
    [criteria |-> criteria.display_name,
     company |-> company,
     result |-> result,
     status |-> status,
     run_id |-> rid,
     criteria_id |-> criteria.id,
     question |-> question,
     weight |-> criteria.weight,
     justification |-> justification,
     supporting_evidence |-> evidence]

\* what a block of the cell leaves behind
Done(loc, rows, entries) ==
    [raised |-> FALSE, exc |-> "", loc |-> loc, rows |-> rows, entries |-> entries]

Raise(exc, loc) ==
    [raised |-> TRUE, exc |-> exc, loc |-> loc, rows |-> <<>>, entries |-> <<>>]

\* the inner try block: the assignments, the INSERT, results.append
InnerTry(criteria, company, value, loc, rid, time, insert_ok) ==
    LET loc1 == Bind(loc, "question", criteria.question)
    IN  IF ~value.obj THEN Raise("TypeError", loc1)
        ELSE IF ~HasKey(value, "result") THEN Raise("KeyError", loc1)
        ELSE IF ~HasKey(value, "explanation") THEN Raise("KeyError", loc1)
        ELSE
          LET result == value.fields["result"]
              loc2 == Bind(loc1, "justification", value.fields["explanation"])
          IN  IF ~HasKey(value, "supporting_evidence") THEN Raise("KeyError", loc2)
              ELSE
                LET loc3 == Bind(loc2, "evidence",
                                 JsonDumps(value.fields["supporting_evidence"]))
                IN  IF ~insert_ok THEN Raise("DatabaseError", loc3)
                    ELSE Done(loc3,
                              <<OutputRow(criteria, company, result,
                                          loc3.justification, loc3.evidence,
                                          rid, time)>>,
                              <<ResultEntry(criteria, company, result, "success",
                                            rid, loc3.question,
                                            loc3.justification, loc3.evidence)>>)

\* an inner handler that only reports, and adds no entry
InnerExceptDrop(criteria, company, value, loc, rid) == Raise("DatabaseError", loc)

\* except Exception as db_error: the entry is built from rag_output and from
\* the locals question, justification and evidence, whatever bound them
InnerExcept(criteria, company, value, loc, rid) ==
    IF ~value.obj THEN Raise("TypeError", loc)
    ELSE IF ~HasKey(value, "result") THEN Raise("KeyError", loc)
    ELSE IF "justification" \notin loc.bound THEN Raise("UnboundLocalError", loc)
    ELSE IF "evidence" \notin loc.bound THEN Raise("UnboundLocalError", loc)
    ELSE Done(loc, <<>>,
              <<ResultEntry(criteria, company, value.fields["result"],
                            "success_no_save", rid, loc.question,
                            loc.justification, loc.evidence)>>)

Message(criteria, company, exc) ==
    [criteria |-> criteria.display_name, company |-> company, exc |-> exc]

\* the outer try block of one cell
OuterTry(criteria, company, outcome, old_output, loc, rid, time, insert_ok) ==
    IF outcome.raised
    THEN [rag_output |-> old_output, warnings |-> <<>>] @@ Raise("RagError", loc)
    ELSE IF ~JsonLoads(outcome.text).ok
    THEN [rag_output |-> outcome.text, warnings |-> <<>>]
         @@ Raise("JSONDecodeError", loc)
    ELSE
      LET value == JsonLoads(outcome.text).value
          inner == InnerTry(criteria, company, value, loc, rid, time, insert_ok)
      IN  IF ~inner.raised
          THEN [rag_output |-> value, warnings |-> <<>>] @@ inner
          ELSE [rag_output |-> value,
                warnings |-> <<Message(criteria, company, inner.exc)>>]
               @@ InnerExcept(criteria, company, value, inner.loc, rid)

\* an outer handler that lets the exception leave run_analysis
OuterExceptReraise(criteria, company, cell) ==
    [errors |-> <<>>, propagated |-> cell.raised]

\* except Exception as e: st.error, and the loop goes on
OuterExcept(criteria, company, cell) ==
    [errors |-> IF cell.raised
                THEN <<Message(criteria, company, cell.exc)>> ELSE <<>>,
     propagated |-> FALSE]

(***************************************************************************)
(* The analysis page: main() up to the Start Analysis button.              *)
(***************************************************************************)
Range(s) == { s[i] : i \in DOMAIN s }

\* the company lists the page can pass on: "Run All Companies" and the
\* timestamp filter give companies in name order, the multiselect in the
\* order of selection; none repeats a company and none is empty
CompanySelections ==
    { s \in UNION { [1..n -> Range(Companies)] : n \in 1..Len(Companies) } :
        \A i, j \in DOMAIN s : i # j => s[i] # s[j] }

\* "Select Specific Criteria" with the chosen display names, or all of them
SelectCriteria(available, names) ==
    SelectSeq(available, LAMBDA c : c.display_name \in names)

\* the radio "Choose criteria mode"
CriteriaModes == { "Select Specific Criteria", "Run All Criteria" }

\* get_available_companies(): the names in order, or [] when no document has
\* been processed or the query fails
AvailableCompanies == { <<>>, Companies }

\* ORDER BY COMPANY_NAME
InNameOrder(s) ==
    \A i, j \in DOMAIN s : i < j =>
      \E m, n \in DOMAIN Companies : m < n /\ Companies[m] = s[i] /\ Companies[n] = s[j]

\* what the user enters under "Select Companies": the mode, the multiselect,
\* the two dates, and what the timestamp filter finds when it is run.  The
\* widgets are not rendered when main() has returned above them.
CompanyInputs(available_companies) ==
    LET offered == { s \in CompanySelections :
                       Range(s) \subseteq Range(available_companies) }
        all == [mode |-> "Run All Companies", chosen |-> <<>>,
                dates |-> "range", filtered |-> <<>>]
    IN  IF available_companies = <<>> THEN { all }
        ELSE { all }
             \cup { [all EXCEPT !.mode = "Select Specific Companies", !.chosen = c] :
                      c \in offered \cup { <<>> } }
             \cup { [all EXCEPT !.mode = "Upload Timestamp Filter", !.dates = d] :
                      d \in { "missing", "reversed" } }
             \cup { [all EXCEPT !.mode = "Upload Timestamp Filter", !.filtered = f] :
                      f \in { s \in offered : InNameOrder(s) } \cup { <<>> } }

\* the answers of get_available_companies with the entries made under each
CompanyPages ==
    UNION { { <<available_companies, sel>> : sel \in CompanyInputs(available_companies) } :
            available_companies \in AvailableCompanies }

\* what the user enters under "Select Analysis Criteria": the mode, and the
\* display names chosen in the multiselect
CriteriaPages(available_criteria) ==
    { <<"Run All Criteria", {}>> }
    \cup { <<"Select Specific Criteria", names>> :
             names \in SUBSET { c.display_name : c \in Range(available_criteria) } }

\* a message of main(), in the shape of the messages of run_analysis
PageMessage(text) == [criteria |-> <<>>, company |-> "", exc |-> text]

\* main() returns after st.error or st.warning
PageStops(kind, text) ==
    [run |-> FALSE,
     errors |-> IF kind = "error" THEN <<PageMessage(text)>> ELSE <<>>,
     warnings |-> IF kind = "warning" THEN <<PageMessage(text)>> ELSE <<>>,
     selected_criteria |-> <<>>, selected_companies |-> <<>>]

\* main() reaches the Start Analysis button
PageRuns(criteria, selected_companies) ==
    [run |-> TRUE, errors |-> <<>>, warnings |-> <<>>,
     selected_criteria |-> criteria, selected_companies |-> selected_companies]

\* main() without the two returns on an empty list
MainPageNoReturn(available_criteria, criteria_mode, names, available_companies, sel) ==
    PageRuns(IF criteria_mode = "Select Specific Criteria"
             THEN SelectCriteria(available_criteria, names)
             ELSE available_criteria,
             IF sel.mode = "Select Specific Companies" THEN sel.chosen
             ELSE IF sel.mode = "Upload Timestamp Filter" THEN sel.filtered
             ELSE available_companies)

\* main(): the selections, with every early return
MainPage(available_criteria, criteria_mode, names, available_companies, sel) ==
    IF available_criteria = <<>>
    THEN PageStops("error", "No active criteria found")
    ELSE IF criteria_mode = "Select Specific Criteria" /\ names = {}
    THEN PageStops("warning", "Please select at least one criteria")
    ELSE IF available_companies = <<>>
    THEN PageStops("error", "No companies found")
    ELSE IF sel.mode = "Select Specific Companies" /\ sel.chosen = <<>>
    THEN PageStops("warning", "Please select at least one company")
    ELSE IF sel.mode = "Upload Timestamp Filter" /\ sel.dates = "missing"
    THEN PageStops("warning", "Please select both start and end dates")
    ELSE IF sel.mode = "Upload Timestamp Filter" /\ sel.dates = "reversed"
    THEN PageStops("error", "Start date must be before or equal to end date")
    ELSE IF sel.mode = "Upload Timestamp Filter" /\ sel.filtered = <<>>
    THEN PageStops("warning", "No companies found in the date range")
    ELSE PageRuns(IF criteria_mode = "Select Specific Criteria"
                  THEN SelectCriteria(available_criteria, names)
                  ELSE available_criteria,
                  IF sel.mode = "Select Specific Companies" THEN sel.chosen
                  ELSE IF sel.mode = "Upload Timestamp Filter" THEN sel.filtered
                  ELSE available_companies)

\* what main() can come to over a criteria table: every list
\* get_active_criteria can return, every answer of get_available_companies
\* and every entry of the user
Pages(table) ==
    UNION { { MainPage(available, cp[1], cp[2], kp[1], kp[2]) :
                cp \in CriteriaPages(available), kp \in CompanyPages } :
            available \in GetActiveCriteria(table) }

\* the review page before a company is chosen
NoReview == [company |-> "", scope |-> "", rows |-> <<>>,
             total_score |-> 0, max_possible |-> 0,
             percentage |-> [num |-> 0, den |-> 1]]

NoSummary == [run_id |-> NewRunId(0, 0), successful |-> 0, total |-> 0,
              shown |-> <<>>]

\* progress_bar = st.progress(0)
ProgressStart == [num |-> 0, den |-> 1]

\* the count taken before the cell is counted
ProgressValueBefore(count, total) == [num |-> count - 1, den |-> total]

\* progress = analysis_count / total_analyses, kept as a fraction
ProgressValue(count, total) == [num |-> count, den |-> total]

\* progress_bar.progress(value), with the number of cells whose body had
\* finished when the value was put on the screen
ProgressShown(value, finished) == [value |-> value, finished |-> finished]

\* rag has not been called
NoTrace == [query |-> <<>>, company |-> "", search |-> <<>>, limit |-> 0,
            filter |-> "", context |-> <<>>, prompt |-> <<>>]

\* the media scan page before its first render
NoMediaPage ==
    [show_add_form |-> FALSE, edit_mode |-> FALSE,
     selected_media_scan |-> [COMPANY_NAME |-> <<>>, TOPIC_OF_DISQUALIFICATION |-> <<>>],
     show_upload |-> FALSE, form |-> "none", rerun |-> FALSE,
     event |-> [kind |-> "load", valid |-> FALSE]]

\* criteria_form() has returned no dict
NoFormData == [id |-> ""]

\* the criteria page with no form open
NoForm == [open |-> FALSE, form_data |-> NoFormData, saves |-> 0]

\* the other pages after construction: an empty stage, no table of the
\* document pipeline filled, no form open
InitPages ==
    /\ clock = 0
    /\ stage = {}
    /\ batches = <<>>
    /\ cortex_parsed_docs = EmptyBag
    /\ cortex_docs_chunks_table = EmptyBag
    /\ process_log = <<>>
    /\ media_page = NoMediaPage
    /\ criteria_form = NoForm

Init ==
    /\ input_criteria = EmptyBag
    /\ cortex_output = <<>>
    /\ now = 0
    /\ uuids = 0
    /\ pc = "idle"
    /\ selected_criteria = <<>>
    /\ companies = <<>>
    /\ run_id = NewRunId(0, 0)
    /\ total_analyses = 0
    /\ analysis_count = 0
    /\ ci = 1
    /\ ki = 1
    /\ results = <<>>
    /\ rag_output = NoOutput
    /\ locals = NoLocals
    /\ rag_calls = <<>>
    /\ calls = 0
    /\ errors = <<>>
    /\ warnings = <<>>
    /\ summary = NoSummary
    /\ review = NoReview
    /\ runs = <<>>
    /\ progress = <<>>
    /\ media_scan = EmptyBag
    /\ rag_trace = NoTrace
    /\ InitPages

\* The criteria of a behaviour are entered before its first run.
Setup == pc = "idle" /\ uuids = 0

\* Add New / Import All on the criteria page
AddCriteria ==
    /\ Setup
    /\ BagCardinality(input_criteria) < MaxCriteria
    /\ \E row \in CriteriaInputs :
         input_criteria' = SaveCriteriaInsert(input_criteria, row)
    /\ UNCHANGED <<cortex_output, review>>
    /\ UNCHANGED runVars
    /\ UNCHANGED sideVars
    /\ UNCHANGED otherPages

\* datetime.now() to the second, counted from the start of the first run: a
\* later run starts in the second of the run before it or in a later one
ClockReadings ==
    IF runs = <<>> THEN { 0 } ELSE { t \in { now, now + 1 } : t <= MaxTime }

\* main() with Start Analysis pressed, and run_analysis up to its loop.  The
\* cells of a behaviour are capped by cap.
StartRunWithin(cap) ==
    /\ pc = "idle"
    /\ calls < cap
    /\ \E page \in Pages(input_criteria) :
       \E time \in ClockReadings :
         LET selected == page.selected_criteria
             selected_companies == page.selected_companies
         IN  /\ page.run
             /\ calls + Len(selected) * Len(selected_companies) <= cap
             /\ selected_criteria' = selected
             /\ companies' = selected_companies
             /\ now' = time
             /\ uuids' = uuids + 1
             /\ run_id' = NewRunId(uuids + 1, time)
             /\ total_analyses' = Len(selected) * Len(selected_companies)
             /\ progress' = <<ProgressShown(ProgressStart, 0)>>
             /\ runs' = Append(runs, [run_id |-> NewRunId(uuids + 1, time),
                                      criteria |-> selected,
                                      companies |-> selected_companies])
    /\ pc' = "loop"
    /\ analysis_count' = 0
    /\ ci' = 1
    /\ ki' = 1
    /\ results' = <<>>
    /\ rag_output' = NoOutput
    /\ locals' = NoLocals
    /\ rag_calls' = <<>>
    /\ errors' = <<>>
    /\ warnings' = <<>>
    /\ summary' = NoSummary
    /\ review' = NoReview
    /\ UNCHANGED <<input_criteria, cortex_output, calls>>
    /\ UNCHANGED sideVars
    /\ UNCHANGED otherPages

\* the runs of a behaviour have MaxCalls cells at most
StartRun == StartRunWithin(MaxCalls)

\* main() returns before the Start Analysis button: the page shows the
\* message and nothing else.  These renders are followed until the first run
\* starts; a later one puts the same messages over the same tables.
AbortPage ==
    /\ Setup
    /\ \E page \in Pages(input_criteria) :
         /\ ~page.run
         /\ errors' = page.errors
         /\ warnings' = page.warnings
    /\ summary' = NoSummary
    /\ review' = NoReview
    /\ UNCHANGED <<input_criteria, cortex_output, pc, selected_criteria,
                   companies, run_id, total_analyses, analysis_count, ci, ki,
                   results, rag_output, locals, rag_calls, calls, uuids, now,
                   runs, progress>>
    /\ UNCHANGED sideVars
    /\ UNCHANGED otherPages

\* the statement executed twice
InsertOutputTwice(table, rows) == table \o rows \o rows

\* an upsert keyed by (run_id, criteria_id, data_source)
InsertOutputUpsert(table, rows) ==
    IF rows = <<>> THEN table
    ELSE LET new == rows[1]
             same(old) == /\ old.run_id = new.run_id
                          /\ old.criteria_id = new.criteria_id
                          /\ old.data_source = new.data_source
         IN  IF \E i \in DOMAIN table : same(table[i])
             THEN [i \in DOMAIN table |-> IF same(table[i]) THEN new ELSE table[i]]
             ELSE table \o rows

\* session.sql(insert_sql, [...]).collect()
InsertOutput(table, rows) == table \o rows

\* an inner loop over an iterator that the first criterion uses up
NextCellExhausted(i, k, n_criteria, n_companies) ==
    IF k < n_companies
    THEN [ci |-> i, ki |-> k + 1, done |-> FALSE]
    ELSE [ci |-> n_criteria + 1, ki |-> 1, done |-> TRUE]

\* the loops nested the other way, the companies outermost
NextCellCompaniesOuter(i, k, n_criteria, n_companies) ==
    IF i < n_criteria
    THEN [ci |-> i + 1, ki |-> k, done |-> FALSE]
    ELSE [ci |-> 1, ki |-> k + 1, done |-> k + 1 > n_companies]

\* for criteria in selected_criteria: for company in companies
NextCell(i, k, n_criteria, n_companies) ==
    IF k < n_companies
    THEN [ci |-> i, ki |-> k + 1, done |-> FALSE]
    ELSE [ci |-> i + 1, ki |-> 1, done |-> i + 1 > n_criteria]

\* one pass of the loop body
AnalyzeCell ==
    /\ pc = "loop"
    /\ LET criteria == selected_criteria[ci]
           company == companies[ki]
       IN  \E outcome \in RagOutcomes(calls + 1, RagResults) :
           \E insert_ok \in BOOLEAN :
             LET cell == OuterTry(criteria, company, outcome, rag_output,
                                  locals, run_id, now, insert_ok)
                 handled == OuterExcept(criteria, company, cell)
                 next == NextCell(ci, ki, Len(selected_criteria), Len(companies))
             IN  /\ analysis_count' = analysis_count + 1
                 /\ progress' = Append(progress,
                        ProgressShown(ProgressValue(analysis_count + 1,
                                                    total_analyses),
                                      Len(rag_calls)))
                 /\ rag_calls' = Append(rag_calls,
                                        [query |-> criteria.prompt,
                                         company |-> company])
                 /\ calls' = calls + 1
                 /\ rag_output' = cell.rag_output
                 /\ locals' = cell.loc
                 /\ cortex_output' = InsertOutput(cortex_output, cell.rows)
                 /\ results' = results \o cell.entries
                 /\ warnings' = warnings \o cell.warnings
                 /\ errors' = errors \o handled.errors
                 /\ pc' = IF handled.propagated THEN "idle"
                          ELSE IF next.done THEN "display" ELSE "loop"
                 /\ ci' = next.ci
                 /\ ki' = next.ki
    /\ UNCHANGED <<input_criteria, now, uuids, selected_criteria, companies,
                   run_id, total_analyses, summary, review, runs>>
    /\ UNCHANGED sideVars
    /\ UNCHANGED otherPages

\* criteria_groups: the entries grouped by criteria name, the groups in the
\* order of their first entry
RECURSIVE CriteriaGroups(_)
CriteriaGroups(entries) ==
    IF entries = <<>> THEN <<>>
    ELSE LET criteria_name == Head(entries).criteria
         IN  SelectSeq(entries, LAMBDA e : e.criteria = criteria_name)
             \o CriteriaGroups(SelectSeq(entries, LAMBDA e : e.criteria # criteria_name))

\* the default view, Individual Results: an icon and the result per entry
IndividualResults(entries) ==
    LET grouped == CriteriaGroups(entries)
    IN  [i \in DOMAIN grouped |->
            [criteria |-> grouped[i].criteria,
             company |-> grouped[i].company,
             icon |-> IF grouped[i].status = "success" THEN "ok" ELSE "error",
             result |-> grouped[i].result]]

\* run_analysis after the loop: the summary line and the results display;
\* the function returns and its locals are gone
ShowResults ==
    /\ pc = "display"
    /\ summary' = [run_id |-> run_id,
                   successful |-> Len(SelectSeq(results,
                                      LAMBDA r : r.status = "success")),
                   total |-> Len(results),
                   shown |-> IndividualResults(results)]
    /\ pc' = "idle"
    /\ selected_criteria' = <<>>
    /\ companies' = <<>>
    /\ total_analyses' = 0
    /\ analysis_count' = 0
    /\ ci' = 1
    /\ ki' = 1
    /\ results' = <<>>
    /\ rag_output' = NoOutput
    /\ locals' = NoLocals
    /\ rag_calls' = <<>>
    /\ progress' = <<>>
    /\ UNCHANGED <<input_criteria, cortex_output, now, uuids, run_id, calls,
                   errors, warnings, review, runs>>
    /\ UNCHANGED sideVars
    /\ UNCHANGED otherPages

(***************************************************************************)
(* The review page, tab "View by Company" (pages/5_Review_Analysis.py).    *)
(***************************************************************************)
\* the comparison without TRIM and UPPER
ScoreCaseExact(result, weight) == IF result = YES THEN weight ELSE Num(0)

\* the weight whatever the result
ScoreCaseNoElse(result, weight) == weight

\* CASE WHEN UPPER(TRIM(co.result)) = 'YES' THEN ic.weight ELSE 0 END
ScoreCase(result, weight) == IF IsYes(result) THEN weight ELSE Num(0)

\* one row of the SELECT list
JoinedRow(co, weight) ==
    [id |-> co.criteria_id,
     question |-> co.question,
     criteria_prompt |-> co.criteria_prompt,
     weight |-> weight,
     result |-> co.result,
     justification |-> co.justification,
     evidence |-> co.evidence,
     run_id |-> co.run_id,
     score |-> ScoreCase(co.result, weight)]

\* ON co.criteria_id = ic.id AND co.criteria_version = ic.version
JoinOn(co, ic) == co.criteria_id = ic.id /\ co.criteria_version = ic.version

RECURSIVE JoinRows(_, _, _)
JoinRows(co, matching, table) ==
    IF matching = {} THEN <<>>
    ELSE LET ic == CHOOSE x \in matching : TRUE
         IN  [i \in 1..table[ic] |-> JoinedRow(co, ic.weight)]
             \o JoinRows(co, matching \ {ic}, table)

\* LEFT JOIN input_criteria: one row per matching criteria row, and one row
\* with a NULL weight when none matches
LeftJoin(co, table) ==
    LET matching == { ic \in BagToSet(table) : JoinOn(co, ic) }
    IN  IF matching = {} THEN <<JoinedRow(co, NullNum)>>
        ELSE JoinRows(co, matching, table)

RECURSIVE JoinAll(_, _)
JoinAll(rows, table) ==
    IF rows = <<>> THEN <<>>
    ELSE LeftJoin(Head(rows), table) \o JoinAll(Tail(rows), table)

\* latest_runs: MAX(output:timestamp) per criteria_id, for the company
LatestTimestamp(output, company, criteria_id) ==
    LET times == { output[i].output.timestamp : i \in
                     { j \in DOMAIN output :
                         /\ output[j].data_source = company
                         /\ output[j].criteria_id = criteria_id } }
    IN  CHOOSE t \in times : \A u \in times : u <= t

\* the order of run_id strings: the hex part, then the timestamp
RunIdLess(a, b) == a[2] < b[2] \/ (a[2] = b[2] /\ a[3] < b[3])

\* ORDER BY co.criteria_id, co.run_id DESC
AllRunsBefore(a, b) ==
    \/ IdRank(a.id) < IdRank(b.id)
    \/ a.id = b.id /\ RunIdLess(b.run_id, a.run_id)

\* ORDER BY co.criteria_id
LatestBefore(a, b) == IdRank(a.id) < IdRank(b.id)

\* ORDER BY is SortSeq of the TLC module; rows that the ORDER BY does not
\* tell apart come in an order the aggregates do not depend on

AllRuns == "All Runs"
LatestRun == "Latest Run per Criteria"
Scopes == { AllRuns, LatestRun }

\* the query of the chosen data scope
CompanyQuery(scope, company, output, table) ==
    IF scope = AllRuns
    THEN SortSeq(JoinAll(SelectSeq(output, LAMBDA co : co.data_source = company),
                         table),
                 AllRunsBefore)
    ELSE SortSeq(JoinAll(SelectSeq(output, LAMBDA co :
                             /\ co.data_source = company
                             /\ co.output.timestamp =
                                  LatestTimestamp(output, company, co.criteria_id)),
                         table),
                 LatestBefore)

\* df[column].sum(): NULL (NaN) cells are skipped
RECURSIVE SumSkipNull(_)
SumSkipNull(cells) ==
    IF cells = <<>> THEN 0
    ELSE (IF Head(cells).null THEN 0 ELSE Head(cells).v) + SumSkipNull(Tail(cells))

\* (total_score / max_possible * 100) if max_possible > 0 else 0, kept as a
\* fraction
ScorePercentage(total_score, max_possible) ==
    IF max_possible > 0
    THEN [num |-> total_score * 100, den |-> max_possible]
    ELSE [num |-> 0, den |-> 1]

\* the metrics above the table
ReviewMetrics(company, scope, rows) ==
    LET total_score == SumSkipNull([i \in DOMAIN rows |-> rows[i].score])
        max_possible == SumSkipNull([i \in DOMAIN rows |-> rows[i].weight])
    IN  [company |-> company,
         scope |-> scope,
         rows |-> rows,
         total_score |-> total_score,
         max_possible |-> max_possible,
         percentage |-> ScorePercentage(total_score, max_possible)]

\* SELECT DISTINCT data_source ... and the selectbox
ReviewedCompanies(output) == { output[i].data_source : i \in DOMAIN output }

\* a company and a data scope are chosen on the review page; what the
\* analysis page had rendered is no longer on the screen
ReviewCompany ==
    /\ pc = "idle"
    /\ \E company \in ReviewedCompanies(cortex_output) :
       \E scope \in Scopes :
         review' = ReviewMetrics(company, scope,
                                 CompanyQuery(scope, company, cortex_output,
                                              input_criteria))
    /\ errors' = <<>>
    /\ warnings' = <<>>
    /\ summary' = NoSummary
    /\ UNCHANGED <<input_criteria, cortex_output, pc, selected_criteria,
                   companies, run_id, total_analyses, analysis_count, ci, ki,
                   results, rag_output, locals, rag_calls, calls, uuids, now,
                   runs, progress>>
    /\ UNCHANGED sideVars
    /\ UNCHANGED otherPages

Next ==
    \/ ReviewCompany
    \/ AddCriteria
    \/ AbortPage
    \/ StartRun
    \/ AnalyzeCell
    \/ ShowResults

Spec == Init /\ [][Next]_vars

(***************************************************************************)
(* The review queries over the tables a review can find: results of        *)
(* earlier runs, and criteria as later edits, imports and deletions left   *)
(* them.                                                                   *)
(***************************************************************************)
ReviewResults ==
    { YES, <<" ", "y", "e", "s", " ">>, <<"N", "o">>, <<"Y", "E", "S", "!">>,
      <<>>, NULL }

\* form weights are 0.0 .. 10.0; a CSV import stores any float
ReviewWeights == { 0, 10, -10 }

ReviewKeys == { <<"A.1", "1.0">>, <<"B.1", "1.0">> }

ReviewCriteriaRows ==
    { Criterion(key[1], key[2], w, TRUE) : key \in ReviewKeys, w \in ReviewWeights }

\* the row a run number i wrote for a cell
ReviewRow(i, key, company, result) ==
    OutputRow(CriteriaDict(Criterion(key[1], key[2], DefaultWeight, TRUE)),
              company, result, <<"explanation", i>>,
              JsonDumps(<<"evidence", i>>), NewRunId(i, 0), 0)

ReviewOutputs ==
    UNION { { out \in [1..n -> { ReviewRow(0, key, "Acme", res) :
                                    key \in ReviewKeys, res \in ReviewResults }
                                \cup { ReviewRow(0, <<"A.1", "1.0">>, "Beta", YES) }] :
              TRUE } : n \in 0..MaxRows }

\* row i of the table comes from run i
NumberRuns(out) ==
    [i \in DOMAIN out |->
        [out[i] EXCEPT !.run_id = NewRunId(i, 0),
                       !.output.run_id = NewRunId(i, 0),
                       !.justification = <<"explanation", i>>,
                       !.evidence = JsonDumps(<<"evidence", i>>)]]

ReviewTables ==
    { SeqToBag(t) : t \in UNION { [1..n -> ReviewCriteriaRows] : n \in 0..MaxCriteria } }

InitReview ==
    /\ input_criteria \in ReviewTables
    /\ cortex_output \in { NumberRuns(out) : out \in ReviewOutputs }
    /\ now = 0
    /\ uuids = 0
    /\ pc = "idle"
    /\ selected_criteria = <<>>
    /\ companies = <<>>
    /\ run_id = NewRunId(0, 0)
    /\ total_analyses = 0
    /\ analysis_count = 0
    /\ ci = 1
    /\ ki = 1
    /\ results = <<>>
    /\ rag_output = NoOutput
    /\ locals = NoLocals
    /\ rag_calls = <<>>
    /\ calls = 0
    /\ errors = <<>>
    /\ warnings = <<>>
    /\ summary = NoSummary
    /\ review = NoReview
    /\ runs = <<>>
    /\ progress = <<>>
    /\ media_scan = EmptyBag
    /\ rag_trace = NoTrace
    /\ InitPages

NextReview == ReviewCompany

SpecReview == InitReview /\ [][NextReview]_vars

(***************************************************************************)
(* The criteria page in another session, next to a run of the analysis     *)
(* page.                                                                   *)
(***************************************************************************)
\* cells of the run that is followed next to the other session
MaxSessionCells == 1

\* Edit on a criterion of the list, Save: the form's values go to every row
\* of the id in the form
EditCriteria ==
    /\ \E criteria_data \in CriteriaInputs :
         /\ \E r \in BagToSet(input_criteria) : r.id = criteria_data.id
         /\ input_criteria' = SaveCriteriaUpdate(input_criteria, criteria_data)
    /\ UNCHANGED <<cortex_output, review>>
    /\ UNCHANGED runVars
    /\ UNCHANGED sideVars
    /\ UNCHANGED otherPages

\* Activate / Deactivate on a criterion of the list
ToggleCriteria ==
    /\ \E row \in BagToSet(input_criteria) :
         input_criteria' = ToggleCriteriaStatus(input_criteria, row.id, ~row.active)
    /\ UNCHANGED <<cortex_output, review>>
    /\ UNCHANGED runVars
    /\ UNCHANGED sideVars
    /\ UNCHANGED otherPages

\* Delete on a criterion of the list, confirmed
RemoveCriteria ==
    /\ \E row \in BagToSet(input_criteria) :
         input_criteria' = DeleteCriteria(input_criteria, row.id)
    /\ UNCHANGED <<cortex_output, review>>
    /\ UNCHANGED runVars
    /\ UNCHANGED sideVars
    /\ UNCHANGED otherPages

\* the first run of the analysis page, of MaxSessionCells cells at most
SessionRun ==
    /\ StartRun
    /\ runs = <<>>
    /\ total_analyses' <= MaxSessionCells

NextSessions ==
    \/ AddCriteria
    \/ EditCriteria
    \/ ToggleCriteria
    \/ RemoveCriteria
    \/ SessionRun
    \/ AnalyzeCell
    \/ ShowResults

SpecSessions == Init /\ [][NextSessions]_vars

(***************************************************************************)
(* Table media_scan (pages/2_Media_Scan_Management.py).                    *)
(***************************************************************************)
\* what a user types into the company name field or a CSV cell
MediaNameEntries == { <<"A">>, <<"A", " ">>, <<"B">>, <<" ">> }

\* what a user types into the topic field or a CSV cell
MediaTopicEntries == { <<"t">>, <<" ", "u">>, <<>> }

\* str.strip() of the form and of the import
Strip(text) == Trim(text)

\* media_scan_form on Save, and the row check of Import All: both values are
\* stripped, and a record with an empty one is refused
MediaScanForm(company_name, topic_of_disqualification) ==
    [ok |-> Strip(company_name) # <<>> /\ Strip(topic_of_disqualification) # <<>>,
     company_name |-> Strip(company_name),
     topic_of_disqualification |-> Strip(topic_of_disqualification)]

MediaRow(company_name, topic) ==
    [COMPANY_NAME |-> company_name, TOPIC_OF_DISQUALIFICATION |-> topic]

\* the rows of a bag rewritten one by one
RECURSIVE Rewritten(_, _, _, _)
Rewritten(table, rows, company_name, new_row) ==
    IF rows = {} THEN EmptyBag
    ELSE LET r == CHOOSE x \in rows : TRUE
             r2 == IF r.COMPANY_NAME = company_name THEN new_row ELSE r
         IN  [x \in {r2} |-> table[r]]
             (+) Rewritten(table, rows \ {r}, company_name, new_row)

\* save_media_scan: an edit is UPDATE ... WHERE COMPANY_NAME = the original
\* name; anything else is MERGE ... ON target.COMPANY_NAME =
\* source.COMPANY_NAME, which updates the topic of the rows matched and
\* inserts a row when none is
SaveMediaScan(table, data, is_edit, original_company_name) ==
    LET new_row == MediaRow(data.company_name, data.topic_of_disqualification)
    IN  IF is_edit /\ original_company_name # <<>>
        THEN Rewritten(table, BagToSet(table), original_company_name, new_row)
        ELSE IF \E r \in BagToSet(table) : r.COMPANY_NAME = data.company_name
        THEN Rewritten(table, BagToSet(table), data.company_name, new_row)
        ELSE table (+) SetToBag({new_row})

\* delete_media_scan: DELETE FROM media_scan WHERE COMPANY_NAME = ?
DeleteMediaScan(table, company_name) ==
    [r \in { x \in BagToSet(table) : x.COMPANY_NAME # company_name } |-> table[r]]

\* Import All: the rows of the file in order, the refused ones skipped
RECURSIVE ImportAll(_, _)
ImportAll(table, rows) ==
    IF rows = <<>> THEN table
    ELSE LET data == MediaScanForm(Head(rows)[1], Head(rows)[2])
         IN  ImportAll(IF data.ok THEN SaveMediaScan(table, data, FALSE, <<>>)
                       ELSE table,
                       Tail(rows))

\* rows of media_scan
MaxScans == 2
\* rows of a CSV file
MaxCsvRows == 2

CsvFiles ==
    UNION { [1..n -> MediaNameEntries \X MediaTopicEntries] : n \in 1..MaxCsvRows }

\* Add New, Save
AddMediaScan ==
    /\ \E company_name \in MediaNameEntries :
       \E topic \in MediaTopicEntries :
         LET form_data == MediaScanForm(company_name, topic)
         IN  /\ form_data.ok
             /\ media_scan' = SaveMediaScan(media_scan, form_data, FALSE, <<>>)
    /\ BagCardinality(media_scan') <= MaxScans
    /\ UNCHANGED <<input_criteria, cortex_output, review, rag_trace>>
    /\ UNCHANGED runVars
    /\ UNCHANGED otherPages

\* Upload CSV, Import All
ImportMediaScans ==
    /\ \E file \in CsvFiles : media_scan' = ImportAll(media_scan, file)
    /\ BagCardinality(media_scan') <= MaxScans
    /\ UNCHANGED <<input_criteria, cortex_output, review, rag_trace>>
    /\ UNCHANGED runVars
    /\ UNCHANGED otherPages

\* Edit on a record of the list, Save
EditMediaScan ==
    /\ \E selected_media_scan \in BagToSet(media_scan) :
       \E company_name \in MediaNameEntries :
       \E topic \in MediaTopicEntries :
         LET form_data == MediaScanForm(company_name, topic)
         IN  /\ form_data.ok
             /\ media_scan' = SaveMediaScan(media_scan, form_data, TRUE,
                                            selected_media_scan.COMPANY_NAME)
    /\ UNCHANGED <<input_criteria, cortex_output, review, rag_trace>>
    /\ UNCHANGED runVars
    /\ UNCHANGED otherPages

\* Delete on a record of the list, confirmed
RemoveMediaScan ==
    /\ \E row \in BagToSet(media_scan) :
         media_scan' = DeleteMediaScan(media_scan, row.COMPANY_NAME)
    /\ UNCHANGED <<input_criteria, cortex_output, review, rag_trace>>
    /\ UNCHANGED runVars
    /\ UNCHANGED otherPages

(***************************************************************************)
(* rag (pages/4_AI_Analysis.py).  A text is the sequence of its parts, and *)
(* an f-string is the concatenation of the parts it names.  A part is a    *)
(* stretch of plain text, a <media_scan> block or a <context> block.       *)
(***************************************************************************)
Part(tag, body) == [tag |-> tag, body |-> body]

\* chunks of one company in the document index
MaxChunks == 6

\* limit=5
SearchLimit == 5

\* the rows that ai_filter lets through, as to_xml gives them: the topics,
\* up to the order of the rows.  The filter is a model's judgement of
\* "matches exactly", so the names it accepts are an input.
MediaScanResult(table, accepted) ==
    LET rows == { r \in BagToSet(table) : r.COMPANY_NAME \in accepted }
        topics == { r.TOPIC_OF_DISQUALIFICATION : r \in rows }
    IN  <<"data",
          [t \in topics |->
             SetSum({ r \in rows : r.TOPIC_OF_DISQUALIFICATION = t },
                    [r \in rows |-> table[r]])]>>

Chunk(company_name, n) ==
    [COMPANY_NAME |-> company_name, final_chunk_ocr |-> <<"chunk", company_name, n>>]

\* the chunks of the index as the search service ranks them for a query:
\* b chunks of Beta ahead of a chunks of Acme
RankedIndexes ==
    { [i \in 1..(a + b) |-> IF i <= b THEN Chunk("Beta", i) ELSE Chunk("Acme", i - b)] :
        a \in 0..MaxChunks, b \in 0..1 }

\* cortex_search_service.search(query, columns, filter, limit): the first
\* `limit` of the ranked chunks that pass {"@eq": {"COMPANY_NAME": ...}}
Search(ranked, company_name, limit) ==
    LET passing == SelectSeq(ranked, LAMBDA c : c.COMPANY_NAME = company_name)
    IN  SubSeq(passing, 1, IF Len(passing) < limit THEN Len(passing) ELSE limit)

\* context_str: "Context document {i+1}: {final_chunk_ocr}" per result
ContextStr(found) ==
    [i \in DOMAIN found |-> <<"Context document", i, found[i].final_chunk_ocr>>]

\* rag(query, company_name) up to the call of complete.  query += f"{query}
\* <media_scan> ... </media_scan>" appends the old query and the block to the
\* query; the search is made with the query so extended.
Rag(query, company_name, table, accepted, ranked) ==
    LET result == MediaScanResult(table, accepted)
        query2 == query \o query \o <<Part("media_scan", result)>>
        found == Search(ranked, company_name, SearchLimit)
        prompt_context == ContextStr(found)
    IN  [query |-> query,
         company |-> company_name,
         search |-> query2,
         limit |-> SearchLimit,
         filter |-> company_name,
         context |-> prompt_context,
         prompt |-> query2 \o <<Part("context", prompt_context)>>]

\* the prompts run_analysis passes to rag
RagQueries == { <<Part("text", c.criteria_prompt)>> : c \in CriteriaInputs }

\* one call of rag over the tables as they are
CallRag ==
    /\ \E query \in RagQueries :
       \E company_name \in Range(Companies) :
       \E accepted \in SUBSET { r.COMPANY_NAME : r \in BagToSet(media_scan) } :
       \E ranked \in RankedIndexes :
         rag_trace' = Rag(query, company_name, media_scan, accepted, ranked)
    /\ UNCHANGED <<input_criteria, cortex_output, review, media_scan>>
    /\ UNCHANGED runVars
    /\ UNCHANGED otherPages

NextMedia ==
    \/ AddMediaScan
    \/ ImportMediaScans
    \/ EditMediaScan
    \/ RemoveMediaScan
    \/ CallRag

SpecMedia == Init /\ [][NextMedia]_vars

(***************************************************************************)
(* Properties of run_analysis.                                             *)
(***************************************************************************)
\* the cell the loop is at
CurrentCriteria == selected_criteria[ci]
CurrentCompany == companies[ki]

\* this step assigned the completion text of its rag call to rag_output
TextArrives == pc = "loop" /\ rag_output'.n = calls + 1

CompleteObject(value) == value.obj /\ RequiredKeys \subseteq DOMAIN value.fields

LoopGoesOn ==
    /\ pc' \in {"loop", "display"}
    /\ analysis_count' = analysis_count + 1
    /\ (pc' = "display") = (analysis_count' = total_analyses)

\* C1: whatever a cell raises (in rag, in json.loads, in the handling of the
\* result) is shown as a warning or an error naming the cell, and the loop
\* moves to the next cell or, after the last cell, to the display: no
\* exception of a cell leaves run_analysis.
C1_FailureIsolated ==
    [][pc = "loop" =>
         /\ LoopGoesOn
         /\ Len(rag_calls') = Len(rag_calls) + 1
         /\ Len(cortex_output') = Len(cortex_output) =>
              \/ /\ Len(errors') = Len(errors) + 1
                 /\ Last(errors').criteria = CurrentCriteria.display_name
                 /\ Last(errors').company = CurrentCompany
              \/ /\ Len(warnings') = Len(warnings) + 1
                 /\ Last(warnings').criteria = CurrentCriteria.display_name
                 /\ Last(warnings').company = CurrentCompany
         /\ Len(results') = Len(results) =>
              /\ Len(errors') = Len(errors) + 1
              /\ Last(errors') \in
                   { Message(CurrentCriteria, CurrentCompany, exc) :
                       exc \in {"RagError", "JSONDecodeError", "TypeError",
                                "KeyError", "UnboundLocalError"} }]_vars

\* a run of one criterion over two companies whose first cell failed and
\* whose second cell succeeded
C1_Witness ==
    /\ pc = "display"
    /\ Len(selected_criteria) = 1
    /\ Len(companies) = 2
    /\ Len(errors) = 1
    /\ errors[1].company = companies[1]
    /\ Len(results) = 1
    /\ results[1].company = companies[2]
    /\ results[1].status = "success"

\* the rag calls of the matrix, criteria outermost
MatrixCalls(C, K) ==
    [n \in 1..(Len(C) * Len(K)) |->
        [query |-> C[((n - 1) \div Len(K)) + 1].prompt,
         company |-> K[((n - 1) % Len(K)) + 1]]]

CellCount(log, name, company) ==
    Cardinality({ i \in DOMAIN log :
                    log[i].criteria = name /\ log[i].company = company })

\* C2: when the loop has ended, rag has been called once per cell of the
\* matrix, in matrix order and with no repetition, and every cell has either
\* one results entry or one error.
C2_EachCellOnce ==
    /\ pc = "loop" => Len(rag_calls) = analysis_count
    /\ pc = "display" =>
         /\ rag_calls = MatrixCalls(selected_criteria, companies)
         /\ Len(rag_calls) = Len(selected_criteria) * Len(companies)
         /\ Len(results) + Len(errors) = Len(rag_calls)
         /\ \A c \in Range(selected_criteria) : \A k \in Range(companies) :
              CellCount(results, c.display_name, k)
                + CellCount(errors, c.display_name, k)
              = Cardinality({ i \in DOMAIN selected_criteria :
                                selected_criteria[i].display_name = c.display_name })

\* a finished run of two criteria over one company, one cell a success and
\* one a failure
C2_Witness ==
    /\ pc = "display"
    /\ Len(selected_criteria) = 2
    /\ Len(companies) = 1
    /\ Len(rag_calls) = 2
    /\ Len(results) = 1
    /\ Len(errors) = 1

\* C3: a completion that is not JSON fails its cell: no row is inserted, no
\* results entry is added, the error is shown, and the run goes on.
C3_NonJsonFails ==
    [][(TextArrives /\ ~rag_output'.json) =>
         /\ cortex_output' = cortex_output
         /\ results' = results
         /\ errors' = Append(errors, Message(CurrentCriteria, CurrentCompany,
                                             "JSONDecodeError"))
         /\ warnings' = warnings
         /\ LoopGoesOn]_vars

\* the loop is at its second cell after a first completion that was not JSON
C3_Witness ==
    /\ pc = "loop"
    /\ analysis_count = 1
    /\ rag_output.n = calls
    /\ ~rag_output.json
    /\ Len(errors) = 1
    /\ errors[1].exc = "JSONDecodeError"

\* C4 (as claimed): a completion that is JSON but lacks one of the keys
\* result, explanation, supporting_evidence adds no row and no results
\* entry, wherever its cell is in the matrix.
C4_MissingKeyFails ==
    [][(TextArrives /\ rag_output'.json /\ ~CompleteObject(rag_output')) =>
         /\ cortex_output' = cortex_output
         /\ results' = results]_vars

\* C5: when the INSERT fails after a complete object was parsed, an entry
\* with status success_no_save and the cell's own values is added, the
\* warning is shown and no error, and the run goes on; the display shows the
\* entry with its result, not as a success, and does not count it as one.
C5_NoSaveRecorded ==
    [][/\ (TextArrives /\ rag_output'.json /\ CompleteObject(rag_output')
             /\ cortex_output' = cortex_output) =>
            /\ results' =
                 Append(results,
                        ResultEntry(CurrentCriteria, CurrentCompany,
                                    rag_output'.fields["result"],
                                    "success_no_save", run_id,
                                    CurrentCriteria.question,
                                    rag_output'.fields["explanation"],
                                    JsonDumps(rag_output'.fields["supporting_evidence"])))
            /\ warnings' = Append(warnings, Message(CurrentCriteria, CurrentCompany,
                                                    "DatabaseError"))
            /\ errors' = errors
            /\ LoopGoesOn
       /\ (pc = "display" /\ pc' = "idle") =>
            /\ Len(summary'.shown) = Len(results)
            /\ \A i \in DOMAIN results :
                 results[i].status = "success_no_save" =>
                   \E j \in DOMAIN summary'.shown :
                     summary'.shown[j] = [criteria |-> results[i].criteria,
                                          company |-> results[i].company,
                                          icon |-> "error",
                                          result |-> results[i].result]
            /\ summary'.successful =
                 Cardinality({ i \in DOMAIN results : results[i].status = "success" })
            /\ summary'.total = Len(results)]_vars

\* the first cell of a run parsed a complete object and its INSERT failed
C5_Witness ==
    /\ pc \in {"loop", "display"}
    /\ analysis_count = 1
    /\ cortex_output = <<>>
    /\ CompleteObject(rag_output)
    /\ Len(results) = 1
    /\ results[1].status = "success_no_save"
    /\ Len(warnings) = 1

(***************************************************************************)
(* Properties of the rows of cortex_output.                                *)
(***************************************************************************)
RowsOf(rid, criteria_id, company) ==
    { i \in DOMAIN cortex_output :
        /\ cortex_output[i].run_id = rid
        /\ cortex_output[i].criteria_id = criteria_id
        /\ cortex_output[i].data_source = company }

RowsOfVersion(rid, criteria_id, criteria_version, company) ==
    { i \in RowsOf(rid, criteria_id, company) :
        cortex_output[i].criteria_version = criteria_version }

\* C6 (as claimed): no two rows of cortex_output have the same run_id,
\* criteria_id and company.
C6_OneRowPerKey ==
    \A i, j \in DOMAIN cortex_output :
      (/\ cortex_output[i].run_id = cortex_output[j].run_id
       /\ cortex_output[i].criteria_id = cortex_output[j].criteria_id
       /\ cortex_output[i].data_source = cortex_output[j].data_source) => i = j

\* C6 (amended): every row belongs to a run that selected its criterion
\* version and its company, and a run has no more rows for a criterion id,
\* version and company than it selected criteria with that id and version:
\* one row at most per cell of the matrix.
C6_OneRowPerCell ==
    /\ \A i \in DOMAIN cortex_output :
         \E r \in DOMAIN runs : runs[r].run_id = cortex_output[i].run_id
    /\ \A r \in DOMAIN runs :
       \A c \in CriteriaInputs :
       \A k \in Range(Companies) :
         Cardinality(RowsOfVersion(runs[r].run_id, c.id, c.version, k))
           <= IF k \in Range(runs[r].companies)
              THEN Cardinality({ n \in DOMAIN runs[r].criteria :
                                   /\ runs[r].criteria[n].id = c.id
                                   /\ runs[r].criteria[n].version = c.version })
              ELSE 0

\* one run wrote two rows for one criterion id and company, one for each
\* active version of the criterion
C6_Witness ==
    \E i, j \in DOMAIN cortex_output :
      /\ i < j
      /\ cortex_output[i].run_id = cortex_output[j].run_id
      /\ cortex_output[i].criteria_id = cortex_output[j].criteria_id
      /\ cortex_output[i].data_source = cortex_output[j].data_source
      /\ cortex_output[i].criteria_version # cortex_output[j].criteria_version

RunIds(log) == { log[r].run_id : r \in DOMAIN log }

\* C7: each run has a run_id no earlier run had, which it keeps from its
\* first cell to its last and writes into each of its rows (the column and
\* the output JSON); the rows of earlier runs stay as they were.
C7_RunsKeptApart ==
    [][/\ runs' # runs =>
            /\ runs' = Append(runs, Last(runs'))
            /\ run_id' = Last(runs').run_id
            /\ run_id' \notin RunIds(runs)
            /\ \A i \in DOMAIN cortex_output : cortex_output[i].run_id # run_id'
            /\ cortex_output' = cortex_output
       /\ pc = "loop" => (run_id' = run_id /\ runs' = runs)
       /\ \A i \in DOMAIN cortex_output' :
            IF i \in DOMAIN cortex_output
            THEN cortex_output'[i] = cortex_output[i]
            ELSE /\ pc = "loop"
                 /\ cortex_output'[i].run_id = run_id
                 /\ cortex_output'[i].output.run_id = run_id
                 /\ run_id = Last(runs).run_id]_vars

\* two runs over the same criteria and companies have each written a row
\* for the same cell
C7_Witness ==
    /\ Len(runs) = 2
    /\ runs[1].criteria = runs[2].criteria
    /\ runs[1].companies = runs[2].companies
    /\ Len(cortex_output) = 2
    /\ cortex_output[1].run_id = runs[1].run_id
    /\ cortex_output[2].run_id = runs[2].run_id
    /\ cortex_output[1].criteria_id = cortex_output[2].criteria_id
    /\ cortex_output[1].criteria_version = cortex_output[2].criteria_version
    /\ cortex_output[1].data_source = cortex_output[2].data_source

\* C8: no step of the analysis page or of the review page changes or removes
\* a row of cortex_output; rows are only added, at the end.
C8_AppendOnly ==
    [][/\ Len(cortex_output') >= Len(cortex_output)
       /\ SubSeq(cortex_output', 1, Len(cortex_output)) = cortex_output]_vars

\* the review page has shown a company after two rows were written for it
\* under one run_id
C8_Witness ==
    /\ review.company # ""
    /\ Len(review.rows) >= 2
    /\ Len(cortex_output) = 2
    /\ cortex_output[1].data_source = review.company
    /\ cortex_output[2].data_source = review.company
    /\ cortex_output[1].run_id = cortex_output[2].run_id

(***************************************************************************)
(* Properties of the review page's score.                                  *)
(***************************************************************************)
\* the spellings of a result that UPPER(TRIM(.)) turns into 'YES'
SaysYes(result) ==
    /\ result # NULL
    /\ \E i, j \in DOMAIN result :
         /\ i + 2 = j
         /\ \A n \in DOMAIN result : (n < i \/ n > j) => result[n] = " "
         /\ result[i] \in {"Y", "y"}
         /\ result[i + 1] \in {"E", "e"}
         /\ result[j] \in {"S", "s"}

Reviewed == review.company # ""

\* the weights of the criteria rows that a shown row can have been joined to
JoinedWeights(row) ==
    LET matching ==
          { ic \in BagToSet(input_criteria) :
              \E i \in DOMAIN cortex_output :
                /\ cortex_output[i].run_id = row.run_id
                /\ cortex_output[i].criteria_id = row.id
                /\ cortex_output[i].data_source = review.company
                /\ JoinOn(cortex_output[i], ic) }
    IN  IF matching = {} THEN { NullNum } ELSE { ic.weight : ic \in matching }

NonNull(cells) == SelectSeq(cells, LAMBDA x : ~x.null)

\* C9: on the review page a row's weight is the weight of the criterion of
\* the row's criteria id and version, its score is that weight when
\* UPPER(TRIM(result)) is YES and 0 otherwise, and the total score is the sum
\* of the row scores.
C9_ScoreIsWeightOfYes ==
    Reviewed =>
      /\ \A i \in DOMAIN review.rows :
           LET row == review.rows[i]
           IN  /\ row.weight \in JoinedWeights(row)
               /\ row.score = IF SaysYes(row.result) THEN row.weight ELSE Num(0)
      /\ review.total_score =
           SeqSum([i \in DOMAIN NonNull([n \in DOMAIN review.rows |-> review.rows[n].score])
                     |-> NonNull([n \in DOMAIN review.rows |-> review.rows[n].score])[i].v])

\* a review with a row whose result " yes " scores its weight and a row
\* whose result "No" scores 0
C9_Witness ==
    /\ Reviewed
    /\ \E i, j \in DOMAIN review.rows :
         /\ review.rows[i].result = <<" ", "y", "e", "s", " ">>
         /\ review.rows[i].score = Num(10)
         /\ review.rows[j].result = <<"N", "o">>
         /\ review.rows[j].weight = Num(10)
         /\ review.rows[j].score = Num(0)
    /\ review.total_score = 10

AllYes == \A i \in DOMAIN review.rows : SaysYes(review.rows[i].result)

\* C10 (as claimed): the total score is at most the sum of the weights, and
\* equals it exactly when every result is YES.
C10_ScoreBounded ==
    Reviewed =>
      /\ review.total_score <= review.max_possible
      /\ (review.total_score = review.max_possible) <=> AllYes

\* C10 (amended): the sum of the weights less the total score is the sum of
\* the weights of the rows whose result is not YES.  So the total score
\* equals the sum of the weights when every result is YES; it is at most
\* that sum when no row with another result has a negative weight; and it is
\* below that sum when some row has another result and every such row has a
\* positive weight.
C10_ScoreGap ==
    Reviewed =>
      LET others == SelectSeq(review.rows, LAMBDA r : ~SaysYes(r.result))
          gap == SeqSum([i \in DOMAIN others |->
                           IF others[i].weight.null THEN 0 ELSE others[i].weight.v])
      IN  /\ review.max_possible - review.total_score = gap
          /\ AllYes => review.total_score = review.max_possible
          /\ (\A i \in DOMAIN others : others[i].weight.null \/ others[i].weight.v >= 0)
               => review.total_score <= review.max_possible
          /\ (others # <<>> /\ \A i \in DOMAIN others :
                                 ~others[i].weight.null /\ others[i].weight.v > 0)
               => review.total_score < review.max_possible

\* a review where a result is not YES and the total score equals the sum of
\* the weights, because the row's weight is 0
C10_Witness ==
    /\ Reviewed
    /\ Len(review.rows) = 2
    /\ \E i, j \in DOMAIN review.rows :
         /\ SaysYes(review.rows[i].result)
         /\ review.rows[i].weight = Num(10)
         /\ ~SaysYes(review.rows[j].result)
         /\ review.rows[j].weight = Num(0)
    /\ review.total_score = review.max_possible

\* the sum of the weights of the active rows of input_criteria
ActiveWeights ==
    LET active == { ic \in BagToSet(input_criteria) : ic.active /\ ~ic.weight.null }
        weigh[S \in SUBSET active] ==
            IF S = {} THEN 0
            ELSE LET ic == CHOOSE x \in S : TRUE
                 IN  ic.weight.v * input_criteria[ic] + weigh[S \ {ic}]
    IN  weigh[active]

\* C11 (as claimed): the score percentage of a reviewed company is its total
\* score divided by the sum of the weights of all active criteria, times 100.
C11_PercentOfActive ==
    (Reviewed /\ ActiveWeights > 0) =>
      review.percentage.num * ActiveWeights
        = review.total_score * 100 * review.percentage.den

\* the criteria ids that have a row of cortex_output for the reviewed company
ReviewedIds ==
    { cortex_output[i].criteria_id :
        i \in { j \in DOMAIN cortex_output :
                  cortex_output[j].data_source = review.company } }

PageErrors == { errors[i].exc : i \in { j \in DOMAIN errors : errors[j].criteria = <<>> } }

\* a step that puts a message of main() on the screen
PageStopped ==
    \/ \E m \in Range(errors') : m.criteria = <<>> /\ errors' # errors
    \/ \E m \in Range(warnings') : m.criteria = <<>> /\ warnings' # warnings

\* a run id is drawn, a run is entered or a row is written
RunTouched ==
    \/ uuids' # uuids
    \/ run_id' # run_id
    \/ runs' # runs
    \/ cortex_output' # cortex_output
    \/ pc' # "idle"

\* C13: a render of main() that ends with a message draws no run id, enters
\* no run and writes no row, and so does any step taken while no criterion
\* is active.  A run that starts has a non-empty criteria list and a
\* non-empty company list, every run id drawn belongs to such a run, every
\* row carries the id of such a run, and total_analyses is positive in
\* every progress value.
C13_NoEmptyRun ==
    [][/\ PageStopped => ~RunTouched
       /\ ActiveBag(input_criteria) = EmptyBag => ~RunTouched
       /\ pc' \in { "loop", "display" } =>
            /\ selected_criteria' # <<>>
            /\ companies' # <<>>
            /\ total_analyses' = Len(selected_criteria') * Len(companies')
            /\ total_analyses' > 0
       /\ uuids' = Len(runs')
       /\ \A i \in DOMAIN runs' :
            runs'[i].criteria # <<>> /\ runs'[i].companies # <<>>
       /\ \A i \in DOMAIN cortex_output' :
            \E j \in DOMAIN runs' : runs'[j].run_id = cortex_output'[i].run_id
       /\ \A i \in DOMAIN progress' : progress'[i].value.den > 0]_vars

\* main() has stopped at "No active criteria found" over a table whose only
\* row is inactive: no run id was drawn and no row written
C13_Witness ==
    /\ "No active criteria found" \in PageErrors
    /\ input_criteria # EmptyBag
    /\ uuids = 0
    /\ runs = <<>>
    /\ cortex_output = <<>>

(***************************************************************************)
(* Properties of rag and of the media_scan table.                          *)
(***************************************************************************)
Called == rag_trace # NoTrace

Tags(text) == [i \in DOMAIN text |-> text[i].tag]

\* C14 (as claimed): the prompt sent to the completion is the criterion's
\* prompt text once, then the <media_scan> block, then the <context> block.
C14_PromptOrder ==
    Called =>
      /\ Len(rag_trace.prompt) = Len(rag_trace.query) + 2
      /\ Tags(rag_trace.prompt) = Tags(rag_trace.query) \o <<"media_scan", "context">>
      /\ SubSeq(rag_trace.prompt, 1, Len(rag_trace.query)) = rag_trace.query

\* C15 (as claimed): the search is made with the criterion's text as the
\* query, with limit 5 and the company as an equality filter, and the
\* context lists the chunks found in ranked order as "Context document 1"
\* to "Context document n", n at most 5.
C15_SearchByCriterion ==
    Called =>
      /\ Len(rag_trace.search) = Len(rag_trace.query)
      /\ rag_trace.search = rag_trace.query
      /\ rag_trace.limit = 5
      /\ rag_trace.filter = rag_trace.company
      /\ Len(rag_trace.context) <= 5
      /\ \A i \in DOMAIN rag_trace.context :
           rag_trace.context[i] =
             <<"Context document", i, Chunk(rag_trace.company, i).final_chunk_ocr>>

\* the rows of media_scan with a company name
ScansOf(company_name) ==
    SetSum({ r \in BagToSet(media_scan) : r.COMPANY_NAME = company_name },
           [r \in BagToSet(media_scan) |-> media_scan[r]])

\* C17 (as claimed): media_scan holds at most one row per company name.
C17_OneRowPerCompany ==
    \A r \in BagToSet(media_scan) : ScansOf(r.COMPANY_NAME) <= 1

(***************************************************************************)
(* Properties of the criteria table under edits.                           *)
(***************************************************************************)
\* the rows of input_criteria with an id and a version
CriteriaOf(id, version) ==
    SetSum({ r \in BagToSet(input_criteria) : r.id = id /\ r.version = version },
           [r \in BagToSet(input_criteria) |-> input_criteria[r]])

\* C16 (as claimed): no two rows of input_criteria have the same id and
\* version.
C16_UniqueKey ==
    \A r \in BagToSet(input_criteria) : CriteriaOf(r.id, r.version) <= 1

\* the criterion of a run's selection that a row was written for
WrittenFor(row, run) ==
    /\ run.run_id = row.run_id
    /\ row.data_source \in Range(run.companies)
    /\ \E c \in Range(run.criteria) :
         /\ c.id = row.criteria_id
         /\ c.version = row.criteria_version
         /\ c.prompt = row.criteria_prompt
         /\ c.question = row.question
         /\ c.id = row.output.criteria_id
         /\ c.version = row.output.criteria_version
         /\ c.prompt = row.output.prompt
         /\ c.question = row.output.question

\* C19: every row of cortex_output carries the criteria_prompt, the
\* criteria_version and the question that its run selected for the cell
\* when it started, whatever another session has done to the criterion
\* since.
C19_SnapshotValues ==
    \A i \in DOMAIN cortex_output :
      \E j \in DOMAIN runs : WrittenFor(cortex_output[i], runs[j])

\* a run is on and has written a row for a criterion that another session
\* has edited or deleted since the run started: no row of input_criteria has
\* the row's id, version and prompt
C19_Witness ==
    /\ pc \in { "loop", "display" }
    /\ \E i \in DOMAIN cortex_output :
         /\ cortex_output[i].run_id = run_id
         /\ \A r \in BagToSet(input_criteria) :
              ~(/\ r.id = cortex_output[i].criteria_id
                /\ r.version = cortex_output[i].criteria_version
                /\ r.criteria_prompt = cortex_output[i].criteria_prompt)

(***************************************************************************)
(* Properties of the progress bar and of the rows of a run.                *)
(***************************************************************************)
Running == pc \in { "loop", "display" }

\* a / b <= c / d for fractions with positive denominators
FractionLeq(x, y) == x.num * y.den <= y.num * x.den

\* C18 (as claimed): every value the progress bar shows is the number of
\* cells completed so far over the total; the values never decrease, never
\* exceed 1, and total/total is shown only when every cell has been
\* completed.
C18_ProgressIsCompleted ==
    Running =>
      \A i \in DOMAIN progress :
        /\ progress[i].value.num * total_analyses
             = progress[i].finished * progress[i].value.den
        /\ i > 1 => FractionLeq(progress[i - 1].value, progress[i].value)
        /\ progress[i].value.num <= progress[i].value.den
        /\ progress[i].value.num = progress[i].value.den
             => progress[i].finished = total_analyses

\* C18 (amended): the bar starts at 0, and the value shown when a cell
\* starts is the number of cells started so far, that cell included, over
\* the total: one more than the cells completed.  The values never decrease
\* and never exceed 1, and total/total is shown from the start of the last
\* cell on, while that cell has still to be completed.
C18_ProgressIsStarted ==
    Running =>
      /\ Len(progress) = Len(rag_calls) + 1
      /\ progress[1].value.num = 0
      /\ progress[1].finished = 0
      /\ \A i \in DOMAIN progress :
           /\ i > 1 => /\ progress[i].value = [num |-> i - 1, den |-> total_analyses]
                       /\ progress[i].finished = i - 2
                       /\ FractionLeq(progress[i - 1].value, progress[i].value)
                       /\ progress[i].value.num = progress[i].value.den
                            <=> progress[i].finished = total_analyses - 1
           /\ progress[i].value.num <= progress[i].value.den

\* a run of two cells is over: the bar showed 2/2 when one cell had been
\* completed
C18_Witness ==
    /\ pc = "display"
    /\ total_analyses = 2
    /\ Last(progress).value = [num |-> 2, den |-> 2]
    /\ Last(progress).finished = 1

\* the rows of cortex_output that the current run has written
RunRows == SelectSeq(cortex_output, LAMBDA r : r.run_id = run_id)

\* C20 (as claimed): every cell a run has attempted, whether it succeeded
\* or failed, has exactly one row in cortex_output.
C20_RowPerAttempt ==
    Running => Len(RunRows) = Len(rag_calls)

\* C20 (amended): every attempted cell ends in exactly one of three ways: a
\* result entry with status success and one row in cortex_output; a result
\* entry with status success_no_save and no row; an error message and no
\* row.  A run's rows are as many as its successful cells, and a failed
\* cell leaves no row.
C20_RowPerSavedCell ==
    Running =>
      /\ Len(RunRows) = Len(SelectSeq(results, LAMBDA r : r.status = "success"))
      /\ Len(rag_calls) = Len(results) + Len(errors)
      /\ \A i \in DOMAIN results : results[i].status \in { "success", "success_no_save" }
      /\ \A i \in DOMAIN RunRows :
           \E j \in DOMAIN results :
             /\ results[j].status = "success"
             /\ results[j].criteria_id = RunRows[i].criteria_id
             /\ results[j].company = RunRows[i].data_source
             /\ results[j].result = RunRows[i].result

\* a run of two cells is over: one cell succeeded and has its row, the
\* other failed with an error and has none
C20_Witness ==
    /\ pc = "display"
    /\ Len(rag_calls) = 2
    /\ Len(RunRows) = 1
    /\ Len(errors) = 1
    /\ Len(results) = 1

(***************************************************************************)
(* Properties of what a failed cell leaves behind.                         *)
(***************************************************************************)
\* the parse failures reported on the screen
ParseErrors == SelectSeq(errors, LAMBDA m : m.exc = "JSONDecodeError")

\* run_analysis holds a completion text that json.loads refused: the local
\* rag_output is the one place the text is ever put
RawTextHeld == rag_output.n > 0 /\ ~rag_output.parsed /\ ~rag_output.json

\* C21 (as claimed): while the error of a completion that did not parse is
\* reported, the raw text of that completion is still held: a message says
\* which cell failed and with what exception, and carries no text, so the
\* text is held when rag_output still has it, and one text at most is.
C21_RawTextKept ==
    Len(ParseErrors) <= (IF RawTextHeld THEN 1 ELSE 0)

(***************************************************************************)
(* One run over a matrix of up to MaxMatrixCells cells.                    *)
(***************************************************************************)
\* cells of the run: two criteria over two companies
MaxMatrixCells == 4

\* the first run of the analysis page
MatrixRun ==
    /\ StartRunWithin(MaxMatrixCells)
    /\ runs = <<>>

NextMatrix ==
    \/ AddCriteria
    \/ MatrixRun
    \/ AnalyzeCell
    \/ ShowResults

SpecMatrix == Init /\ [][NextMatrix]_vars

(***************************************************************************)
(* C23: the order of the cells.                                            *)
(***************************************************************************)
\* the cells of the matrix C x K, the criteria outermost: cell (i, j) has
\* the place (i - 1) * |K| + j
MatrixCells(C, K) ==
    [n \in 1..(Len(C) * Len(K)) |->
        [criteria |-> C[((n - 1) \div Len(K)) + 1].display_name,
         company |-> K[((n - 1) % Len(K)) + 1]]]

\* s is t with some of its elements left out
RECURSIVE Embeds(_, _)
Embeds(s, t) ==
    IF s = <<>> THEN TRUE
    ELSE IF t = <<>> THEN FALSE
    ELSE IF Head(s) = Head(t) THEN Embeds(Tail(s), Tail(t))
    ELSE Embeds(s, Tail(t))

ResultCells == [i \in DOMAIN results |->
                  [criteria |-> results[i].criteria, company |-> results[i].company]]

\* C23: the cells are attempted criteria-outer, companies-inner, in the order
\* of the two input lists: the n-th call of rag of a run is for the n-th cell
\* of the matrix counted row by row, the loop stands at the cell that follows
\* the calls made, and the results list holds its entries in that same order.
C23_CriteriaOuter ==
    pc \in {"loop", "display"} =>
      /\ rag_calls = SubSeq(MatrixCalls(selected_criteria, companies),
                            1, Len(rag_calls))
      /\ pc = "loop" => Len(rag_calls) = (ci - 1) * Len(companies) + (ki - 1)
      /\ Embeds(ResultCells,
                SubSeq(MatrixCells(selected_criteria, companies),
                       1, Len(rag_calls)))

\* a finished run of two different criteria over two different companies,
\* one of the four cells without an entry
C23_Witness ==
    /\ pc = "display"
    /\ Len(selected_criteria) = 2
    /\ Len(companies) = 2
    /\ selected_criteria[1] # selected_criteria[2]
    /\ companies[1] # companies[2]
    /\ Len(rag_calls) = 4
    /\ Len(results) = 3

(***************************************************************************)
(* C25: the fields of a results entry.                                     *)
(***************************************************************************)
\* C25 (as claimed): every entry added to results carries the question of
\* its cell's criterion and the result, the explanation and the supporting
\* evidence of its cell's own model output; no entry holds a value that a
\* cell before it left behind.
C25_EntryFromOwnCell ==
    [][(pc = "loop" /\ Len(results') = Len(results) + 1) =>
         LET entry == Last(results')
         IN  /\ entry.question = CurrentCriteria.question
             /\ entry.result = rag_output'.fields["result"]
             /\ entry.justification = FieldValue("explanation", calls', entry.result)
             /\ entry.supporting_evidence =
                  JsonDumps(FieldValue("supporting_evidence", calls', entry.result))]_vars

(***************************************************************************)
(* C26: the summary line.                                                  *)
(***************************************************************************)
\* the run the summary line is about
SummaryRun == CHOOSE r \in Range(runs) : r.run_id = summary.run_id

\* rows of cortex_output written by the run of the summary
SummaryRows == SelectSeq(cortex_output, LAMBDA row : row.run_id = summary.run_id)

\* C26 (as claimed): in "Analysis completed: s/t successful" t is the number
\* of cells attempted, |C| x |K| with the failed cells included, and s is the
\* number of cells persisted, so that s <= t and t - s counts every cell
\* that failed or was not saved.
C26_SummaryCounts ==
    summary # NoSummary =>
      /\ summary.total = Len(SummaryRun.criteria) * Len(SummaryRun.companies)
      /\ summary.successful = Len(SummaryRows)
      /\ summary.successful <= summary.total

(***************************************************************************)
(* C28: what an edit, a toggle or a delete of one criterion touches.       *)
(***************************************************************************)
\* a step of the criteria page that changes rows and adds none
RowsRewritten ==
    /\ input_criteria' # input_criteria
    /\ BagCardinality(input_criteria') <= BagCardinality(input_criteria)

\* C28 (as claimed): an edit (save_criteria with is_edit=True), a toggle or a
\* delete changes the one (id, version) row that was selected and leaves
\* every other row as it was, the other versions of the same id included.
C28_OnlySelectedRow ==
    [][RowsRewritten =>
         \E selected \in BagToSet(input_criteria) :
           \A row \in BagToSet(input_criteria) :
             (row.id # selected.id \/ row.version # selected.version) =>
               CopiesIn(row, input_criteria') >= CopiesIn(row, input_criteria)]_vars

(***************************************************************************)
(* The upload page (pages/1_Document_Processing.py) and the document       *)
(* pipeline (utils.py).                                                    *)
(***************************************************************************)
\* datetime.now() is read in ticks; a second has this many
TicksPerSecond == 2
\* the last tick of the clock
MaxClock == 2
\* presses of "Upload to Snowflake Stage"
MaxUploads == 2
\* calls of process_all_documents
MaxProcessCalls == 2

\* the browser sessions that upload
UploadSessions == { "s1", "s2" }

\* st.file_uploader(type=['pdf']): the names of the files chosen
FileName(stem, ext) == [stem |-> stem, ext |-> ext]

PdfNames ==
    { FileName("a", <<"p", "d", "f">>), FileName("b", <<"P", "D", "F">>),
      FileName("c", <<"p", "d", "f">>) }

\* what PARSE_DOCUMENT makes of a file: no content, or its text in pieces
\* of the chunk size
Content(null, text) == [null |-> null, text |-> text]

\* a report of two chunks, a file with no text, a file that gives no content
FileContent(name) ==
    CASE name.stem = "a" -> Content(FALSE, <<"c", "d">>)
      [] name.stem = "b" -> Content(FALSE, <<>>)
      [] OTHER -> Content(TRUE, <<>>)

\* the files chosen in the uploader
UploadedFiles == (SUBSET PdfNames) \ { {} }

\* f"batch_{datetime.datetime.now().strftime('%Y%m%d_%H%M%S')}": the clock
\* cut to the second
generate_batch_id(time) == <<"batch", time \div TicksPerSecond>>

RelativePath(batch_id, name) == [batch_id |-> batch_id, name |-> name]

\* session.file.put(temp_file_path, f"@{stage_name}/{batch_id}",
\* overwrite=True): the file takes the place of the one at its path
upload_file_to_stage(files, session, name, content, batch_id) ==
    { f \in files : f.relative_path # RelativePath(batch_id, name) }
    \cup { [relative_path |-> RelativePath(batch_id, name),
            session |-> session, content |-> content] }

RECURSIVE UploadAll(_, _, _, _)
UploadAll(files, session, uploaded_files, batch_id) ==
    IF uploaded_files = {} THEN files
    ELSE LET name == CHOOSE n \in uploaded_files : TRUE
         IN  UploadAll(upload_file_to_stage(files, session, name,
                                            FileContent(name), batch_id),
                       session, uploaded_files \ {name}, batch_id)

\* "Upload to Snowflake Stage": one batch id for the files chosen.  A put
\* that fails is reported and leaves the stage as it was, as if the file
\* had not been chosen.
UploadFiles ==
    /\ Len(batches) < MaxUploads
    /\ \E session \in UploadSessions :
       \E uploaded_files \in UploadedFiles :
         LET batch_id == generate_batch_id(clock)
         IN  /\ stage' = UploadAll(stage, session, uploaded_files, batch_id)
             /\ batches' = Append(batches, [session |-> session,
                                            batch_id |-> batch_id])
    /\ UNCHANGED <<clock, cortex_parsed_docs, cortex_docs_chunks_table, process_log>>
    /\ UNCHANGED <<input_criteria, cortex_output, review, media_page, criteria_form>>
    /\ UNCHANGED runVars
    /\ UNCHANGED sideVars

\* time passes
Tick ==
    /\ clock < MaxClock
    /\ clock' = clock + 1
    /\ UNCHANGED <<stage, batches, cortex_parsed_docs, cortex_docs_chunks_table,
                   process_log>>
    /\ UNCHANGED <<input_criteria, cortex_output, review, media_page, criteria_form>>
    /\ UNCHANGED runVars
    /\ UNCHANGED sideVars

\* WHERE UPPER(d.relative_path) LIKE '%.PDF'
IsPdf(relative_path) == Upper(relative_path.name.ext) = <<"P", "D", "F">>

\* every PDF of the directory, parsed or not
AllPdfFiles(directory, parsed) == { d \in directory : IsPdf(d.relative_path) }

\* FROM directory(@stage) d WHERE ... AND NOT EXISTS (SELECT 1 FROM
\* cortex_parsed_docs p WHERE p.relative_path = d.relative_path)
NewFiles(directory, parsed) ==
    { d \in directory :
        /\ IsPdf(d.relative_path)
        /\ ~\E p \in BagToSet(parsed) : p.relative_path = d.relative_path }

ParsedRow(d) ==
    [relative_path |-> d.relative_path, parsed_content_ocr |-> d.content]

\* INSERT INTO cortex_parsed_docs SELECT ...: one row per file selected
ParseDocuments(directory, parsed) ==
    parsed (+) SetToBag({ ParsedRow(d) : d \in NewFiles(directory, parsed) })

\* SPLIT_TEXT_RECURSIVE_CHARACTER(content, 'none', 2000, 300), flattened:
\* the pieces with their index
ChunkRows(p) ==
    { [relative_path |-> p.relative_path,
       chunk_index_ocr |-> i - 1,
       chunk_value_ocr |-> p.parsed_content_ocr.text[i]] :
        i \in DOMAIN p.parsed_content_ocr.text }

\* FROM cortex_parsed_docs p WHERE the content IS NOT NULL AND LENGTH(...) > 0
\* AND NOT EXISTS (SELECT 1 FROM cortex_docs_chunks_table c WHERE
\* c.relative_path = p.relative_path)
Unchunked(parsed, chunks) ==
    { p \in BagToSet(parsed) :
        /\ ~p.parsed_content_ocr.null
        /\ Len(p.parsed_content_ocr.text) > 0
        /\ ~\E c \in BagToSet(chunks) : c.relative_path = p.relative_path }

\* INSERT INTO cortex_docs_chunks_table SELECT ...: the rows of every copy
\* of a parsed row selected
CreateChunks(parsed, chunks) ==
    LET rows == UNION { ChunkRows(p) : p \in Unchunked(parsed, chunks) }
        Parent(c) == CHOOSE p \in Unchunked(parsed, chunks) : c \in ChunkRows(p)
    IN  chunks (+) [c \in rows |-> parsed[Parent(c)]]

\* process_all_documents(session): refresh of the stage, parse, chunk, search
\* service.  A statement can raise, and the except clause returns with the
\* steps completed; the statements before it stay committed.  The search
\* service of step 3 writes to neither table.
ProcessAllDocuments ==
    /\ Len(process_log) < MaxProcessCalls
    /\ \E raised_in \in { 0, 1, 2 } :
         LET directory == stage
             parsed == IF raised_in = 1 THEN cortex_parsed_docs
                       ELSE ParseDocuments(directory, cortex_parsed_docs)
             chunks == IF raised_in \in { 1, 2 } THEN cortex_docs_chunks_table
                       ELSE CreateChunks(parsed, cortex_docs_chunks_table)
         IN  /\ cortex_parsed_docs' = parsed
             /\ cortex_docs_chunks_table' = chunks
             /\ process_log' =
                  Append(process_log,
                         [steps_completed |-> CASE raised_in = 1 -> 0
                                                [] raised_in = 2 -> 1
                                                [] OTHER -> 3,
                          new_files |-> NewFiles(directory, cortex_parsed_docs) # {},
                          parsed |-> BagCardinality(parsed)
                                       - BagCardinality(cortex_parsed_docs),
                          chunked |-> BagCardinality(chunks)
                                        - BagCardinality(cortex_docs_chunks_table)])
    /\ UNCHANGED <<clock, stage, batches>>
    /\ UNCHANGED <<input_criteria, cortex_output, review, media_page, criteria_form>>
    /\ UNCHANGED runVars
    /\ UNCHANGED sideVars

NextDocuments ==
    \/ UploadFiles
    \/ Tick
    \/ ProcessAllDocuments

SpecDocuments == Init /\ [][NextDocuments]_vars

(***************************************************************************)
(* C24: batch ids.                                                         *)
(***************************************************************************)
\* C24 (as claimed): uploads of two different sessions never receive the
\* same batch id, and so the files under one batch path all come from one
\* upload session.
C24_UniqueBatchId ==
    /\ \A i, j \in DOMAIN batches :
         batches[i].session # batches[j].session =>
           batches[i].batch_id # batches[j].batch_id
    /\ \A f, g \in stage :
         f.relative_path.batch_id = g.relative_path.batch_id =>
           f.session = g.session

(***************************************************************************)
(* C30: process_all_documents called again and again.                      *)
(***************************************************************************)
\* rows of a table for one relative_path
RowsAt(table, relative_path) ==
    SetSum({ r \in BagToSet(table) : r.relative_path = relative_path }, table)

OneParsedRowPerPath ==
    \A p \in BagToSet(cortex_parsed_docs) :
      RowsAt(cortex_parsed_docs, p.relative_path) <= 1

NoChunkTwice ==
    \A c \in BagToSet(cortex_docs_chunks_table) :
      CopiesIn(c, cortex_docs_chunks_table) <= 1

NoNewPdf == NewFiles(stage, cortex_parsed_docs) = {}

NoMediaScan == MediaRow(<<>>, <<>>)

\* what the screen of the last run lets the user do; a run that ended in
\* st.rerun() is followed by a run with no event
MediaEvents(page, table) ==
    IF page.rerun THEN { [kind |-> "rerun"] }
    ELSE { [kind |-> k] : k \in { "add_new", "refresh", "bulk_upload" } }
         \cup { [kind |-> k, row |-> r] :
                  k \in { "edit", "delete" }, r \in BagToSet(table) }
         \cup (IF page.show_upload
               THEN { [kind |-> "import", file |-> f] : f \in CsvFiles }
               ELSE {})
         \cup (IF page.form # "none"
               THEN { [kind |-> "save", company_name |-> c, topic |-> t] :
                        c \in MediaNameEntries, t \in MediaTopicEntries }
                    \cup { [kind |-> "cancel"] }
               ELSE {})
         \cup (IF page.form = "edit" THEN { [kind |-> "cancel_edit"] } ELSE {})

\* media_scan_form(): the dict on Save with valid input; None on Cancel, on
\* a refused Save and when nothing was submitted
FormData(event) ==
    IF event.kind = "save"
    THEN MediaScanForm(event.company_name, event.topic)
    ELSE [ok |-> FALSE, company_name |-> <<>>, topic_of_disqualification |-> <<>>]

\* st.rerun(): the run ends here
Rerun(page, table) == [page |-> [page EXCEPT !.rerun = TRUE], table |-> table]

\* the list of records: Edit, and Delete with its confirmation
MediaList(page, table, event) ==
    IF event.kind = "edit"
    THEN Rerun([page EXCEPT !.edit_mode = TRUE,
                            !.selected_media_scan = event.row,
                            !.show_add_form = FALSE,
                            !.show_upload = FALSE,
                            !.form = "none"], table)
    ELSE IF event.kind = "delete"
    THEN Rerun(page, DeleteMediaScan(table, event.row.COMPANY_NAME))
    ELSE [page |-> page, table |-> table]

\* a form that is rendered and then closed whenever it returns None
MediaFormsCloseOnNone(page, table, event) ==
    LET form_data == FormData(event)
    IN  IF page.show_add_form /\ ~page.edit_mode
        THEN IF form_data.ok
             THEN Rerun([page EXCEPT !.show_add_form = FALSE],
                        SaveMediaScan(table, form_data, FALSE, <<>>))
             ELSE Rerun([page EXCEPT !.show_add_form = FALSE], table)
        ELSE IF page.edit_mode /\ page.selected_media_scan # NoMediaScan
        THEN IF event.kind = "cancel_edit"
             THEN Rerun([page EXCEPT !.edit_mode = FALSE,
                                     !.selected_media_scan = NoMediaScan], table)
             ELSE IF form_data.ok
             THEN Rerun([page EXCEPT !.edit_mode = FALSE,
                                     !.selected_media_scan = NoMediaScan],
                        SaveMediaScan(table, form_data, TRUE,
                                      page.selected_media_scan.COMPANY_NAME))
             ELSE Rerun([page EXCEPT !.edit_mode = FALSE,
                                     !.selected_media_scan = NoMediaScan], table)
        ELSE MediaList(page, table, event)

\* a form that is closed on Save and on Cancel only
MediaFormsStay(page, table, event) ==
    LET form_data == FormData(event)
    IN  IF page.show_add_form /\ ~page.edit_mode
        THEN IF form_data.ok
             THEN Rerun([page EXCEPT !.show_add_form = FALSE],
                        SaveMediaScan(table, form_data, FALSE, <<>>))
             ELSE IF event.kind = "cancel"
             THEN Rerun([page EXCEPT !.show_add_form = FALSE], table)
             ELSE MediaList([page EXCEPT !.form = "add"], table, event)
        ELSE IF page.edit_mode /\ page.selected_media_scan # NoMediaScan
        THEN IF event.kind \in { "cancel_edit", "cancel" }
             THEN Rerun([page EXCEPT !.edit_mode = FALSE,
                                     !.selected_media_scan = NoMediaScan], table)
             ELSE IF form_data.ok
             THEN Rerun([page EXCEPT !.edit_mode = FALSE,
                                     !.selected_media_scan = NoMediaScan],
                        SaveMediaScan(table, form_data, TRUE,
                                      page.selected_media_scan.COMPANY_NAME))
             ELSE MediaList([page EXCEPT !.form = "edit"], table, event)
        ELSE MediaList(page, table, event)

\* the add form and the edit form of main: the form is rendered; form_data
\* that is not None is saved, and `elif form_data is None` closes the form
\* and reruns.  No branch leaves the form open.
MediaForms(page, table, event) == MediaFormsCloseOnNone(page, table, event)

\* a file with a row that Import All skips
Refused(file) ==
    \E i \in DOMAIN file : ~MediaScanForm(file[i][1], file[i][2]).ok

\* main(): the buttons, the CSV section, the forms, the list
MediaMain(page, table, event) ==
    LET p0 == [page EXCEPT !.form = "none", !.rerun = FALSE,
                           !.event = [kind |-> event.kind,
                                      valid |-> FormData(event).ok]]
        p1 == CASE event.kind = "add_new" ->
                     [p0 EXCEPT !.show_add_form = TRUE, !.edit_mode = FALSE,
                                !.selected_media_scan = NoMediaScan]
                [] event.kind = "bulk_upload" ->
                     [p0 EXCEPT !.show_upload = ~@, !.show_add_form = FALSE,
                                !.edit_mode = FALSE]
                [] OTHER -> p0
    IN  IF event.kind = "refresh"
        THEN Rerun([p0 EXCEPT !.edit_mode = FALSE,
                              !.selected_media_scan = NoMediaScan,
                              !.show_add_form = FALSE], table)
        ELSE IF event.kind = "import"
        THEN IF ~Refused(event.file)
             THEN Rerun([p1 EXCEPT !.show_upload = FALSE],
                        ImportAll(table, event.file))
             ELSE MediaForms(p1, ImportAll(table, event.file), event)
        ELSE MediaForms(p1, table, event)

\* the user presses a button of the screen, and the script runs
MediaPageClick ==
    /\ ~media_page.rerun
    /\ \E event \in MediaEvents(media_page, media_scan) :
         LET run == MediaMain(media_page, media_scan, event)
         IN  /\ media_page' = run.page
             /\ media_scan' = run.table
    /\ BagCardinality(media_scan') <= MaxScans
    /\ UNCHANGED <<input_criteria, cortex_output, review, rag_trace, docVars,
                   criteria_form>>
    /\ UNCHANGED runVars

\* the run that st.rerun() starts
MediaPageRerun ==
    /\ media_page.rerun
    /\ \E event \in MediaEvents(media_page, media_scan) :
         LET run == MediaMain(media_page, media_scan, event)
         IN  /\ media_page' = run.page
             /\ media_scan' = run.table
    /\ UNCHANGED <<input_criteria, cortex_output, review, rag_trace, docVars,
                   criteria_form>>
    /\ UNCHANGED runVars

NextMediaPage ==
    \/ MediaPageClick
    \/ MediaPageRerun

SpecMediaPage == Init /\ [][NextMediaPage]_vars

(***************************************************************************)
(* C27: the forms of the media scan page.                                  *)
(***************************************************************************)
\* C27 (as claimed): the run started by Add New leaves the add form open,
\* the run that follows a press of Edit leaves the edit form open, and a
\* form that is open stays open over a rerun and over a Save with invalid
\* input: it is closed by Save with valid input or by Cancel.
C27_FormStays ==
    [][/\ media_page'.event.kind = "add_new" => media_page'.form = "add"
       /\ (media_page.event.kind = "edit" /\ media_page'.event.kind = "rerun") =>
            media_page'.form = "edit"
       /\ (/\ media_page.form # "none"
           /\ \/ media_page'.event.kind = "rerun"
              \/ media_page'.event.kind = "save" /\ ~media_page'.event.valid) =>
            media_page'.form = media_page.form]_vars

\* no run of the script is started by Save or Cancel of a form
FormNeverSubmitted == media_page.event.kind \notin { "save", "cancel", "cancel_edit" }

(***************************************************************************)
(* The criteria page (pages/3_Criteria_Management.py): Import All and the  *)
(* edit form.  criteria_form holds the session state of the form's keyed   *)
(* widgets (fields, dynamic_prompt), the session value criteria_prompt,    *)
(* what the text area and the unkeyed widgets show, and, once the form has *)
(* returned a dict, that dict.                                             *)
(***************************************************************************)
\* a row of the CSV file as pandas reads it: WEIGHT is a float or NaN, ACTIVE
\* a bool or NaN
CsvRow(id, version, weight, active) ==
    [ID |-> id, VERSION |-> version, WEIGHT |-> weight, ACTIVE |-> active]

NaN == [null |-> TRUE, v |-> 0]

CsvCriteriaRows ==
    { CsvRow("A.1", "1.0", NaN, [null |-> FALSE, v |-> TRUE]),
      CsvRow("A.1", "2.0", Num(-10), [null |-> TRUE, v |-> FALSE]),
      CsvRow("B.1", "1.0", Num(0), [null |-> FALSE, v |-> FALSE]),
      CsvRow("B.1", "2.0", Num(25), [null |-> FALSE, v |-> TRUE]) }

CsvCriteriaFiles ==
    UNION { [1..n -> CsvCriteriaRows] : n \in 1..MaxCsvRows }

\* float(row['WEIGHT']) if row['WEIGHT'] and str(row['WEIGHT']) != 'nan'
\* else 1.0: NaN and 0.0 give 1.0, every other float is kept
CsvWeight(cell) ==
    IF ~cell.null /\ cell.v # 0 THEN cell.v ELSE DefaultWeight

\* bool(row['ACTIVE']) if row['ACTIVE'] and str(row['ACTIVE']) != 'nan'
\* else True
CsvActive(cell) ==
    IF ~cell.null /\ cell.v THEN cell.v ELSE TRUE

\* criteria_data of one row of the file
CsvCriteriaData(row) ==
    [id |-> row.ID, version |-> row.VERSION,
     question |-> <<"Q", row.ID, row.VERSION>>,
     criteria_prompt |-> <<"P", row.ID, row.VERSION>>,
     weight |-> Num(CsvWeight(row.WEIGHT)),
     active |-> CsvActive(row.ACTIVE)]

\* Import All: for idx, row in df.iterrows(): save_criteria(session,
\* criteria_data)
RECURSIVE ImportAllCriteria(_, _)
ImportAllCriteria(table, rows) ==
    IF rows = <<>> THEN table
    ELSE ImportAllCriteria(SaveCriteriaInsert(table, CsvCriteriaData(Head(rows))),
                           Tail(rows))

\* what the user types into the fields of the form
IdEntries == { " B.1", "" }
QuestionEntries == { <<"Q", "new">>, <<" ">> }
RoleEntries == { <<"R", " ">> }
PromptEntries == { <<" ", "T">>, <<>> }
\* the weight field: min_value=0.0, max_value=10.0, step=0.1
WeightEntries == { 25 }

\* str.strip() of an id
StripId(id) == IF id = " B.1" THEN "B.1" ELSE id

\* current_id.split('.')[0]
IdPrefix(id) ==
    CASE StripId(id) = "A.1" -> "A"
      [] StripId(id) = "B.1" -> "B"
      [] OTHER -> id

RECURSIVE SplitAt(_, _, _)
SplitAt(text, sep, item) ==
    IF text = <<>> THEN <<item>>
    ELSE IF Head(text) = sep
    THEN <<item>> \o SplitAt(Tail(text), sep, <<>>)
    ELSE SplitAt(Tail(text), sep, Append(item, Head(text)))

RECURSIVE Join(_, _)
Join(parts, sep) ==
    IF parts = <<>> THEN <<>>
    ELSE IF Len(parts) = 1 THEN parts[1]
    ELSE parts[1] \o sep \o Join(Tail(parts), sep)

\* get_related_questions: SELECT id, question, cluster FROM input_criteria
\* WHERE id LIKE 'prefix.%' AND active = true ORDER BY id; rows of one id
\* come in any order
RelatedQuestions(table, current_id) ==
    LET B == [r \in { x \in BagToSet(table) :
                        x.active /\ IdPrefix(x.id) = IdPrefix(current_id) }
                |-> table[r]]
    IN  { s \in [1..BagCardinality(B) -> BagToSet(B)] :
            /\ SeqToBag(s) = B
            /\ \A i \in 1..(Len(s) - 1) : IdRank(s[i].id) <= IdRank(s[i + 1].id) }

\* generate_criteria_prompt: the parts that are not empty, joined by a blank
\* line
generate_criteria_prompt(current_id, question, cluster, role, instructions, output, related_questions) ==
    LET items == SplitAt(cluster, ",", <<>>)
        cluster_list == SelectSeq([i \in DOMAIN items |-> Strip(items[i])],
                                  LAMBDA item : item # <<>>)
        cluster_str == Join(cluster_list, <<",", " ">>)
        Line(id, cl, q) ==
            <<id, "<cluster>">> \o cl \o <<"</cluster>", "<question>">> \o q
            \o <<"</question>">>
        others == SelectSeq(related_questions, LAMBDA rel : rel.id # current_id)
        questions_section ==
            (IF Strip(question) # <<>>
             THEN <<Line(current_id, cluster_str, question)>> ELSE <<>>)
            \o [i \in DOMAIN others |-> Line(others[i].id, <<>>, others[i].question)]
        prompt_parts ==
            (IF Strip(role) # <<>>
             THEN << <<"<role>">> \o Strip(role) \o <<"</role>">> >> ELSE <<>>)
            \o (IF Strip(instructions) # <<>>
                THEN << <<"<instructions>">> \o Strip(instructions)
                        \o <<"</instructions>">> >>
                ELSE <<>>)
            \o (IF questions_section # <<>>
                THEN << <<"<questions>">> \o Join(questions_section, <<"\n">>)
                        \o <<"</questions>">> >>
                ELSE <<>>)
            \o (IF Strip(output) # <<>>
                THEN << <<"<output>">> \o Strip(output) \o <<"</output>">> >>
                ELSE <<>>)
            \o (IF StripId(current_id) # ""
                THEN << <<"<task>", "Answer question", current_id, "</task>">> >>
                ELSE <<>>)
    IN  Join(prompt_parts, <<"\n\n">>)

\* update_criteria_prompt(): with dynamic mode on, the session value is
\* generated from the session values of the fields, and the text area, whose
\* value parameter it is, shows it
update_criteria_prompt(form, related_questions) ==
    IF form.dynamic_prompt
    THEN LET auto_generated_prompt ==
               generate_criteria_prompt(form.fields.id, form.fields.question,
                                        form.fields.cluster, form.fields.role,
                                        form.fields.instructions,
                                        form.fields.output, related_questions)
         IN  [form EXCEPT !.criteria_prompt = auto_generated_prompt,
                          !.text_area = auto_generated_prompt]
    ELSE form

\* the dict criteria_form returns on Save: the stripped session values of
\* the keyed fields and of criteria_prompt, and the unkeyed widgets
FormDataOf(form) ==
    [id |-> StripId(form.fields.id),
     version |-> form.version,
     question |-> Strip(form.fields.question),
     criteria_prompt |-> Strip(form.criteria_prompt),
     weight |-> Num(form.weight),
     active |-> form.active]

\* the validation of criteria_form on Save
FormValid(form) ==
    /\ StripId(form.fields.id) # ""
    /\ Strip(form.fields.question) # <<>>
    /\ form.dynamic_prompt \/ Strip(form.criteria_prompt) # <<>>

\* the number of edits saved in one exploration
MaxSaves == 1

\* criteria_form(existing_data) on its first run: the fields take the
\* values of the row, dynamic mode is on
NewForm(row) ==
    [open |-> TRUE,
     saves |-> criteria_form.saves,
     selected_criteria |-> row,
     fields |-> [id |-> row.id, question |-> row.question, cluster |-> <<>>,
                 role |-> <<>>, instructions |-> <<>>, output |-> <<>>],
     dynamic_prompt |-> TRUE,
     criteria_prompt |-> row.criteria_prompt,
     text_area |-> row.criteria_prompt,
     weight |-> IF row.weight.null THEN DefaultWeight ELSE row.weight.v,
     version |-> row.version,
     active |-> row.active]

\* st.number_input(min_value=0.0, max_value=10.0, value=float(weight))
\* raises for a value outside the range, and the form is not drawn
WeightFieldDrawn(row) ==
    row.weight.null \/ (0 <= row.weight.v /\ row.weight.v <= 100)

\* a run of the script with the form open
FormRuns(form, table) ==
    { update_criteria_prompt(form, related) :
        related \in RelatedQuestions(table, form.selected_criteria.id) }

criteriaPageFrame ==
    /\ UNCHANGED <<cortex_output, review, docVars, media_page>>
    /\ UNCHANGED runVars
    /\ UNCHANGED sideVars

\* Bulk Upload, a file, Import All
ImportCriteria ==
    /\ ~criteria_form.open
    /\ \E file \in CsvCriteriaFiles :
         input_criteria' = ImportAllCriteria(input_criteria, file)
    /\ BagCardinality(input_criteria') <= MaxCriteria
    /\ criteria_form' = [NoForm EXCEPT !.saves = criteria_form.saves]
    /\ criteriaPageFrame

\* Edit on a criterion of the list
OpenEditForm ==
    /\ ~criteria_form.open
    /\ criteria_form.saves < MaxSaves
    /\ \E row \in BagToSet(input_criteria) :
         /\ WeightFieldDrawn(row)
         /\ criteria_form' \in FormRuns(NewForm(row), input_criteria)
    /\ UNCHANGED input_criteria
    /\ criteriaPageFrame

\* the user changes Criteria ID, Question or Role
TypeField ==
    /\ criteria_form.open
    /\ \E typed \in ({"id"} \X IdEntries) \cup ({"question"} \X QuestionEntries)
                    \cup ({"role"} \X RoleEntries) :
         criteria_form' \in
           FormRuns([criteria_form EXCEPT !.fields[typed[1]] = typed[2]],
                    input_criteria)
    /\ UNCHANGED input_criteria
    /\ criteriaPageFrame

\* the checkbox "Dynamic (auto-generate)": the text area is drawn anew under
\* its other label and shows the session value
ToggleDynamic ==
    /\ criteria_form.open
    /\ criteria_form' \in
         FormRuns([criteria_form EXCEPT !.dynamic_prompt = ~@,
                                        !.text_area = criteria_form.criteria_prompt],
                  input_criteria)
    /\ UNCHANGED input_criteria
    /\ criteriaPageFrame

\* the user types into the Criteria Prompt text area, which is enabled with
\* dynamic mode off; the text area has no key and its text goes to no
\* session value
TypePrompt ==
    /\ criteria_form.open
    /\ ~criteria_form.dynamic_prompt
    /\ \E text \in PromptEntries :
         criteria_form' \in
           FormRuns([criteria_form EXCEPT !.text_area = text], input_criteria)
    /\ UNCHANGED input_criteria
    /\ criteriaPageFrame

\* the user changes Weight
TypeWeight ==
    /\ criteria_form.open
    /\ \E weight \in WeightEntries :
         criteria_form' \in
           FormRuns([criteria_form EXCEPT !.weight = weight], input_criteria)
    /\ UNCHANGED input_criteria
    /\ criteriaPageFrame

\* Save with valid input: save_criteria(session, form_data, is_edit=True),
\* and the form is closed
SaveForm ==
    /\ criteria_form.open
    /\ \E form \in FormRuns(criteria_form, input_criteria) :
         /\ FormValid(form)
         /\ input_criteria' = SaveCriteriaUpdate(input_criteria, FormDataOf(form))
         /\ criteria_form' = [open |-> FALSE, form_data |-> FormDataOf(form),
                               saves |-> criteria_form.saves + 1]
    /\ criteriaPageFrame

\* Cancel, or a button of the page that closes the form
CancelForm ==
    /\ criteria_form.open
    /\ criteria_form' = [NoForm EXCEPT !.saves = criteria_form.saves]
    /\ UNCHANGED input_criteria
    /\ criteriaPageFrame

NextCriteria ==
    \/ ImportCriteria
    \/ OpenEditForm
    \/ TypeField
    \/ ToggleDynamic
    \/ TypePrompt
    \/ TypeWeight
    \/ SaveForm
    \/ CancelForm

SpecCriteria == Init /\ [][NextCriteria]_vars


(***************************************************************************)
(* C22 (as claimed): every criterion stored through the criteria form or   *)
(* the CSV bulk import has a weight that is not negative, and a criterion  *)
(* with no weight is given weight 1.0 by get_active_criteria.              *)
(***************************************************************************)
C22_WeightNonNegative ==
    \A row \in BagToSet(input_criteria) :
        /\ ~row.weight.null => row.weight.v >= 0
        /\ row.weight.null => CriteriaDict(row).weight = DefaultWeight

(***************************************************************************)
(* C29 (as claimed): the criteria_prompt a Save of the criteria form       *)
(* stores is the prompt the form shows at that moment: with dynamic mode   *)
(* on, generate_criteria_prompt of the current values of the fields, and   *)
(* with dynamic mode off, the text the user entered in the Criteria Prompt *)
(* text area (both without surrounding blanks).                            *)
(***************************************************************************)
SaveStep ==
    /\ criteria_form.open
    /\ ~criteria_form'.open
    /\ criteria_form'.saves = criteria_form.saves + 1

GeneratedNow ==
    { Strip(generate_criteria_prompt(criteria_form.fields.id,
                                     criteria_form.fields.question,
                                     criteria_form.fields.cluster,
                                     criteria_form.fields.role,
                                     criteria_form.fields.instructions,
                                     criteria_form.fields.output, related)) :
        related \in RelatedQuestions(input_criteria,
                                     criteria_form.selected_criteria.id) }

C29_PromptAsShown ==
    [][SaveStep =>
         /\ criteria_form.dynamic_prompt =>
              criteria_form'.form_data.criteria_prompt \in GeneratedNow
         /\ ~criteria_form.dynamic_prompt =>
              criteria_form'.form_data.criteria_prompt = Strip(criteria_form.text_area)]_vars

\* the half of C29 for dynamic mode on
C29_DynamicOn ==
    [][(SaveStep /\ criteria_form.dynamic_prompt) =>
         criteria_form'.form_data.criteria_prompt \in GeneratedNow]_vars

=============================================================================
